---- MODULE Spec2Model ----
(***************************************************************************)
(* A model of the mini database: the SQL parser (src/src/parser.py), the   *)
(* table CRUD engine (src/src/table.py) and the database manager           *)
(* (src/src/database.py), together with the primary-key table that the     *)
(* repository's scripts use but whose code is not part of src/.            *)
(*                                                                         *)
(* A Python str is a sequence of one-character strings.  A Python dict is  *)
(* a sequence of <<key, value>> pairs with distinct keys, in insertion     *)
(* order.                                                                  *)
(***************************************************************************)
EXTENDS Integers, Sequences, FiniteSets, TLC

\* ------------------------------------------------------------------ text

\* The characters of the model, in code-point order.
Ascii ==
  <<"\t", "\n", " ", "!", "\"", "'", "(", ")", "*", "+", ",", "-", ".",
    "0", "1", "2", "3", "4", "5", "6", "7", "8", "9", ";", "<", "=", ">",
    "A", "B", "C", "D", "E", "F", "G", "H", "I", "J", "K", "L", "M",
    "N", "O", "P", "Q", "R", "S", "T", "U", "V", "W", "X", "Y", "Z", "_",
    "a", "b", "c", "d", "e", "f", "g", "h", "i", "j", "k", "l", "m",
    "n", "o", "p", "q", "r", "s", "t", "u", "v", "w", "x", "y", "z">>

DigitChars == <<"0", "1", "2", "3", "4", "5", "6", "7", "8", "9">>

LowerChars ==
  <<"a", "b", "c", "d", "e", "f", "g", "h", "i", "j", "k", "l", "m",
    "n", "o", "p", "q", "r", "s", "t", "u", "v", "w", "x", "y", "z">>

UpperChars ==
  <<"A", "B", "C", "D", "E", "F", "G", "H", "I", "J", "K", "L", "M",
    "N", "O", "P", "Q", "R", "S", "T", "U", "V", "W", "X", "Y", "Z">>

Range(f) == {f[i] : i \in DOMAIN f}

Min(S) == CHOOSE x \in S : \A y \in S : x <= y

Max(S) == CHOOSE x \in S : \A y \in S : x >= y

IndexOf(seq, c) == CHOOSE i \in DOMAIN seq : seq[i] = c

IsDigit(c) == c \in Range(DigitChars)

\* str.isspace, and the regular expression class \s
IsSpace(c) == c \in {" ", "\t", "\n"}

\* the regular expression class \w
IsWord(c) == c \in Range(DigitChars) \cup Range(LowerChars) \cup Range(UpperChars) \cup {"_"}

ToUpper(c) == IF c \in Range(LowerChars) THEN UpperChars[IndexOf(LowerChars, c)] ELSE c

\* str.upper
UpperStr(s) == [i \in DOMAIN s |-> ToUpper(s[i])]

\* str.strip
Strip(s) ==
  LET keep == {i \in DOMAIN s : ~IsSpace(s[i])}
  IN  IF keep = {} THEN <<>> ELSE SubSeq(s, Min(keep), Max(keep))

\* str.find(sub, from), 1-based; 0 when sub does not occur
Find(s, sub, from) ==
  LET hits == {i \in from..(Len(s) - Len(sub) + 1) : SubSeq(s, i, i + Len(sub) - 1) = sub}
  IN  IF hits = {} THEN 0 ELSE Min(hits)

\* sub in s
Contains(s, sub) == Find(s, sub, 1) # 0

\* str.split(sep)
RECURSIVE SplitOn(_, _)
SplitOn(s, sep) ==
  LET i == Find(s, sep, 1)
  IN  IF i = 0 THEN <<s>>
      ELSE <<SubSeq(s, 1, i - 1)>> \o SplitOn(SubSeq(s, i + Len(sep), Len(s)), sep)

\* str.split(sep, 1)
SplitOnce(s, sep) ==
  LET i == Find(s, sep, 1)
  IN  IF i = 0 THEN <<s>>
      ELSE <<SubSeq(s, 1, i - 1), SubSeq(s, i + Len(sep), Len(s))>>

\* str.split(): the maximal runs of non-space characters
RECURSIVE SplitWs(_)
SplitWs(s) ==
  LET t == Strip(s)
      sp == {i \in DOMAIN t : IsSpace(t[i])}
  IN  IF t = <<>> THEN <<>>
      ELSE IF sp = {} THEN <<t>>
      ELSE <<SubSeq(t, 1, Min(sp) - 1)>> \o SplitWs(SubSeq(t, Min(sp), Len(t)))

\* ---------------------------------------------------------------- values

\* A Python value: None, bool, int, float (held in tenths) or str.
Null == [t |-> "null", n |-> 0, s |-> <<>>]

BoolV(b) == [t |-> "bool", n |-> IF b THEN 1 ELSE 0, s |-> <<>>]

IntV(n) == [t |-> "int", n |-> n, s |-> <<>>]

FloatV(tenths) == [t |-> "float", n |-> tenths, s |-> <<>>]

StrV(s) == [t |-> "str", n |-> 0, s |-> s]

IsNum(v) == v.t \in {"bool", "int", "float"}

\* the number a bool, int or float stands for, in tenths
Tenths(v) == IF v.t = "float" THEN v.n ELSE 10 * v.n

\* a raised exception, or a returned value
Raise(exc) == [raised |-> TRUE, exc |-> exc, val |-> Null]

Return(v) == [raised |-> FALSE, exc |-> "", val |-> v]

\* decimal digits of a natural number, as text
RECURSIVE NatToStr(_)
NatToStr(n) ==
  IF n < 10 THEN <<DigitChars[n + 1]>>
  ELSE NatToStr(n \div 10) \o <<DigitChars[(n % 10) + 1]>>

\* str(n) for an int
IntToStr(n) == IF n < 0 THEN <<"-">> \o NatToStr(-n) ELSE NatToStr(n)

\* repr(x) for a float held in tenths
FloatToStr(x) ==
  LET a == IF x < 0 THEN -x ELSE x
  IN  (IF x < 0 THEN <<"-">> ELSE <<>>) \o NatToStr(a \div 10) \o <<".">> \o NatToStr(a % 10)

\* the value of a non-empty string of digits
RECURSIVE DigitsToNat(_)
DigitsToNat(s) ==
  IF Len(s) = 0 THEN 0
  ELSE 10 * DigitsToNat(SubSeq(s, 1, Len(s) - 1)) + (IndexOf(DigitChars, s[Len(s)]) - 1)

AllDigits(s) == Len(s) > 0 /\ \A i \in DOMAIN s : IsDigit(s[i])

\* the sign that leads a stripped numeral, and the numeral without it
Sign(t) == IF Len(t) > 0 /\ t[1] = "-" THEN -1 ELSE 1

Unsigned(t) == IF Len(t) > 0 /\ t[1] \in {"+", "-"} THEN Tail(t) ELSE t

\* the int that a stripped numeral stands for
IntOf(t) ==
  IF AllDigits(Unsigned(t)) THEN Return(IntV(Sign(t) * DigitsToNat(Unsigned(t))))
  ELSE Raise("ValueError")

\* int(s) for a str: optional sign, then digits; anything else raises ValueError
StrToInt(s) == IntOf(Strip(s))

\* the float of a sign and the digits before and after the point
FloatOf(sign, parts) ==
  IF /\ Len(parts) <= 2
     /\ \A i \in DOMAIN parts : \A j \in DOMAIN parts[i] : IsDigit(parts[i][j])
     /\ Len(parts[1]) + Len(parts[Len(parts)]) > 0
     /\ Len(parts) = 2 => Len(parts[2]) <= 1
  THEN Return(FloatV(sign * (10 * DigitsToNat(parts[1]) +
                             (IF Len(parts) = 2 THEN DigitsToNat(parts[2]) ELSE 0))))
  ELSE Raise("ValueError")

\* float(s) for a str: optional sign, digits, optionally a point and at most
\* one more digit (floats are held in tenths); anything else raises ValueError
StrToFloat(s) == FloatOf(Sign(Strip(s)), SplitOn(Unsigned(Strip(s)), <<".">>))

\* --------------------------------------------------------------- dicts

DictKeys(d) == {d[i][1] : i \in DOMAIN d}

DictHas(d, k) == k \in DictKeys(d)

\* d[k]
DictGet(d, k) == d[CHOOSE i \in DOMAIN d : d[i][1] = k][2]

\* d[k] = v: an existing key keeps its place, a new key goes last
DictSet(d, k, v) ==
  IF DictHas(d, k)
  THEN [i \in DOMAIN d |-> IF d[i][1] = k THEN <<k, v>> ELSE d[i]]
  ELSE Append(d, <<k, v>>)

\* d.update(u)
RECURSIVE DictUpdate(_, _)
DictUpdate(d, u) ==
  IF u = <<>> THEN d
  ELSE DictUpdate(DictSet(d, u[1][1], u[1][2]), Tail(u))

\* --------------------------------------------------------------- parser

\* re positions: the index of the next character to read; 0 is "no match".

\* a keyword, matched ignoring case
Kw(s, i, kw) ==
  IF i # 0 /\ i + Len(kw) - 1 <= Len(s) /\ UpperStr(SubSeq(s, i, i + Len(kw) - 1)) = kw
  THEN i + Len(kw) ELSE 0

\* the end of the longest run of spaces from position i
SpaceEnd(s, i) == Min({j \in i..(Len(s) + 1) : j = Len(s) + 1 \/ ~IsSpace(s[j])})

\* the end of the longest run of word characters from position i
WordEnd(s, i) == Min({j \in i..(Len(s) + 1) : j = Len(s) + 1 \/ ~IsWord(s[j])})

\* \s+
Ws1(s, i) == IF i # 0 /\ SpaceEnd(s, i) > i THEN SpaceEnd(s, i) ELSE 0

\* \s*
Ws0(s, i) == IF i # 0 THEN SpaceEnd(s, i) ELSE 0

\* \w+
Word1(s, i) == IF i # 0 /\ WordEnd(s, i) > i THEN WordEnd(s, i) ELSE 0

\* one literal character
Lit(s, i, c) == IF i # 0 /\ i <= Len(s) /\ s[i] = c THEN i + 1 ELSE 0

\* a group of a match: None when the group did not take part
NoGroup == [some |-> FALSE, s |-> <<>>]

Group(s) == [some |-> TRUE, s |-> s]

NoMatch == [ok |-> FALSE, g1 |-> NoGroup, g2 |-> NoGroup, g3 |-> NoGroup]

Match(a, b, c) == [ok |-> TRUE, g1 |-> a, g2 |-> b, g3 |-> c]

\* (?:\s+WHERE\s+(.*))? tried at position i: the group takes the rest of the
\* text when WHERE stands between two runs of spaces, and is skipped otherwise
WhereGroup(s, i) ==
  LET c == Ws1(s, Kw(s, Ws1(s, i), <<"W","H","E","R","E">>))
  IN  IF c # 0 THEN Group(SubSeq(s, c, Len(s))) ELSE NoGroup

\* CREATE\s+TABLE\s+(\w+)\s*\((.*?)\)
MatchCreate(s) ==
  LET d == Ws1(s, Kw(s, Ws1(s, Kw(s, 1, <<"C","R","E","A","T","E">>)), <<"T","A","B","L","E">>))
      e == Word1(s, d)
      g == Lit(s, Ws0(s, e), "(")
      h == IF g = 0 THEN 0 ELSE Find(s, <<")">>, g)
  IN  IF h # 0 THEN Match(Group(SubSeq(s, d, e - 1)), Group(SubSeq(s, g, h - 1)), NoGroup)
      ELSE NoMatch

\* INSERT\s+INTO\s+(\w+)\s+VALUES\s*\((.*?)\)
MatchInsert(s) ==
  LET d == Ws1(s, Kw(s, Ws1(s, Kw(s, 1, <<"I","N","S","E","R","T">>)), <<"I","N","T","O">>))
      e == Word1(s, d)
      g == Lit(s, Ws0(s, Kw(s, Ws1(s, e), <<"V","A","L","U","E","S">>)), "(")
      h == IF g = 0 THEN 0 ELSE Find(s, <<")">>, g)
  IN  IF h # 0 THEN Match(Group(SubSeq(s, d, e - 1)), Group(SubSeq(s, g, h - 1)), NoGroup)
      ELSE NoMatch

\* \s+FROM\s+(\w+) tried at position j: <<start of the name, its end>>
FromAt(s, j) ==
  LET r == Ws1(s, Kw(s, Ws1(s, j), <<"F","R","O","M">>))
  IN  <<r, Word1(s, r)>>

\* the positions from k on at which \s+FROM\s+(\w+) matches
FromEnds(s, k) == {j \in k..Len(s) : FromAt(s, j)[2] # 0}

\* SELECT\s+(.*?)\s+FROM\s+(\w+)(?:\s+WHERE\s+(.*))?
\* The first \s+ is greedy and gives characters back; (.*?) is lazy: of the
\* starts k, the latest from which a FROM follows, and then the earliest j.
MatchSelect(s) ==
  LET a == Kw(s, 1, <<"S","E","L","E","C","T">>)
      w == Ws1(s, a)
      starts == IF w = 0 THEN {} ELSE {i \in (a + 1)..w : FromEnds(s, i) # {}}
      k == Max(starts)
      j == Min(FromEnds(s, k))
      f == FromAt(s, j)
  IN  IF starts = {} THEN NoMatch
      ELSE Match(Group(SubSeq(s, k, j - 1)), Group(SubSeq(s, f[1], f[2] - 1)),
                 WhereGroup(s, f[2]))

\* UPDATE\s+(\w+)\s+SET\s+(.*?)(?:\s+WHERE\s+(.*))?
\* Nothing has to follow the lazy (.*?): it matches the empty string, and the
\* optional group is tried right there, after the spaces that follow SET.
MatchUpdate(s) ==
  LET c == Ws1(s, Kw(s, 1, <<"U","P","D","A","T","E">>))
      e == Word1(s, c)
      f == Ws1(s, Kw(s, Ws1(s, e), <<"S","E","T">>))
  IN  IF f # 0 THEN Match(Group(SubSeq(s, c, e - 1)), Group(<<>>), WhereGroup(s, f))
      ELSE NoMatch

\* DELETE\s+FROM\s+(\w+)(?:\s+WHERE\s+(.*))?
MatchDelete(s) ==
  LET d == Ws1(s, Kw(s, Ws1(s, Kw(s, 1, <<"D","E","L","E","T","E">>)), <<"F","R","O","M">>))
      e == Word1(s, d)
  IN  IF e # 0 THEN Match(Group(SubSeq(s, d, e - 1)), WhereGroup(s, e), NoGroup)
      ELSE NoMatch

\* DROP\s+TABLE\s+(\w+)
MatchDrop(s) ==
  LET d == Ws1(s, Kw(s, Ws1(s, Kw(s, 1, <<"D","R","O","P">>)), <<"T","A","B","L","E">>))
      e == Word1(s, d)
  IN  IF e # 0 THEN Match(Group(SubSeq(s, d, e - 1)), NoGroup, NoGroup)
      ELSE NoMatch

\* value.startswith(q) and value.endswith(q)
Quoted(value, q) == Len(value) >= 1 /\ value[1] = q /\ value[Len(value)] = q

\* the try of _parse_value: float(value) if it has a point, else int(value)
ParseNumber(value) ==
  IF Contains(value, <<".">>) THEN StrToFloat(value) ELSE StrToInt(value)

\* the except of _parse_value: what is not a number is returned as a string
NumberOr(num, value) == IF num.raised THEN StrV(value) ELSE num.val

\* _parse_value, on the stripped text
ValueOf(value) ==
  IF UpperStr(value) = <<"N","U","L","L">> THEN Null
  ELSE IF UpperStr(value) = <<"T","R","U","E">> THEN BoolV(TRUE)
  ELSE IF UpperStr(value) = <<"F","A","L","S","E">> THEN BoolV(FALSE)
  ELSE IF Quoted(value, "'") \/ Quoted(value, "\"")
    THEN StrV(SubSeq(value, 2, Len(value) - 1))
  ELSE NumberOr(ParseNumber(value), value)

\* SQLParser._parse_value
ParseValue(text) == ValueOf(Strip(text))

\* a parsed command; the fields a command kind does not carry stay empty
NoWhere == [some |-> FALSE, column |-> <<>>, operator |-> <<>>, value |-> Null]

Where(c, op, v) == [some |-> TRUE, column |-> c, operator |-> op, value |-> v]

Command(type, table) ==
  [type |-> type, table |-> table, columns |-> <<>>, values |-> <<>>,
   updates |-> <<>>, where |-> NoWhere]

\* the outcome of parsing: a command, or a raised ValueError with its message
ParseError(msg) == [raised |-> TRUE, exc |-> "ValueError", msg |-> msg, cmd |-> Command("", <<>>)]

Parsed(cmd) == [raised |-> FALSE, exc |-> "", msg |-> "", cmd |-> cmd]

WhereOps == <<<<"!","=">>, <<">","=">>, <<"<","=">>, <<"=">>, <<">">>, <<"<">>>>

\* SQLParser._parse_where: the first operator of the list that occurs in the
\* clause splits it, at its first occurrence
ParseWhere(text) ==
  LET clause == Strip(text)
      found == {i \in DOMAIN WhereOps : Contains(clause, WhereOps[i])}
      op == WhereOps[Min(found)]
      parts == SplitOnce(clause, op)
  IN  IF found = {} THEN ParseError("Invalid WHERE clause")
      ELSE Parsed([Command("", <<>>) EXCEPT
                     !.where = Where(Strip(parts[1]), op, ParseValue(Strip(parts[2])))])

ColumnTypes == {<<"T","E","X","T">>, <<"I","N","T","E","G","E","R">>, <<"F","L","O","A","T">>, <<"B","O","O","L","E","A","N">>}

\* the loop of _parse_create over the column definitions, columns so far in acc
RECURSIVE ParseColumns(_, _)
ParseColumns(defs, acc) ==
  IF defs = <<>> THEN [raised |-> FALSE, msg |-> "", columns |-> acc]
  ELSE LET colDef == Strip(defs[1])
           parts == SplitWs(colDef)
       IN  IF colDef = <<>> THEN ParseColumns(Tail(defs), acc)
           ELSE IF Len(parts) < 2
             THEN [raised |-> TRUE, msg |-> "Invalid column definition", columns |-> <<>>]
           ELSE IF UpperStr(parts[2]) \notin ColumnTypes
             THEN [raised |-> TRUE, msg |-> "Unsupported column type", columns |-> <<>>]
           ELSE ParseColumns(Tail(defs), DictSet(acc, parts[1], UpperStr(parts[2])))

\* SQLParser._parse_create
ParseCreate(m) ==
  LET cols == ParseColumns(SplitOn(m.g2.s, <<",">>), <<>>)
  IN  IF cols.raised THEN ParseError(cols.msg)
      ELSE Parsed([Command("CREATE", m.g1.s) EXCEPT !.columns = cols.columns])

\* SQLParser._parse_insert
ParseInsert(m) ==
  LET parts == SplitOn(m.g2.s, <<",">>)
  IN  Parsed([Command("INSERT", m.g1.s) EXCEPT
                !.values = [i \in DOMAIN parts |-> ParseValue(Strip(parts[i]))]])

\* the optional WHERE of a matched statement: `if where_clause:` skips an
\* absent and an empty clause
ParseOptWhere(g) ==
  IF g.some /\ g.s # <<>> THEN ParseWhere(g.s) ELSE Parsed(Command("", <<>>))

\* SQLParser._parse_select
ParseSelect(m) ==
  LET columnsStr == Strip(m.g1.s)
      parts == SplitOn(columnsStr, <<",">>)
      columns == IF columnsStr = <<"*">> THEN <<columnsStr>>
                 ELSE [i \in DOMAIN parts |-> Strip(parts[i])]
      w == ParseOptWhere(m.g3)
  IN  IF w.raised THEN w
      ELSE Parsed([Command("SELECT", m.g2.s) EXCEPT !.columns = columns, !.where = w.cmd.where])

\* the loop of _parse_update over the assignments, updates so far in acc
RECURSIVE ParseAssignments(_, _)
ParseAssignments(items, acc) ==
  IF items = <<>> THEN [raised |-> FALSE, msg |-> "", updates |-> acc]
  ELSE LET assignment == Strip(items[1])
           parts == SplitOnce(assignment, <<"=">>)
       IN  IF ~Contains(assignment, <<"=">>)
             THEN [raised |-> TRUE, msg |-> "Invalid SET clause", updates |-> <<>>]
           ELSE ParseAssignments(Tail(items),
                                 DictSet(acc, Strip(parts[1]), ParseValue(Strip(parts[2]))))

\* SQLParser._parse_update
ParseUpdate(m) ==
  LET sets == ParseAssignments(SplitOn(m.g2.s, <<",">>), <<>>)
      w == ParseOptWhere(m.g3)
  IN  IF sets.raised THEN ParseError(sets.msg)
      ELSE IF w.raised THEN w
      ELSE Parsed([Command("UPDATE", m.g1.s) EXCEPT !.updates = sets.updates, !.where = w.cmd.where])

\* SQLParser._parse_delete
ParseDelete(m) ==
  LET w == ParseOptWhere(m.g2)
  IN  IF w.raised THEN w
      ELSE Parsed([Command("DELETE", m.g1.s) EXCEPT !.where = w.cmd.where])

\* SQLParser._parse_drop
ParseDrop(m) == Parsed(Command("DROP", m.g1.s))

\* SQLParser.parse: the patterns are tried in the order of the dict
Parse(text) ==
  LET sql == Strip(text)
  IN  IF sql = <<>> THEN ParseError("Empty SQL statement")
      ELSE IF MatchCreate(sql).ok THEN ParseCreate(MatchCreate(sql))
      ELSE IF MatchInsert(sql).ok THEN ParseInsert(MatchInsert(sql))
      ELSE IF MatchSelect(sql).ok THEN ParseSelect(MatchSelect(sql))
      ELSE IF MatchUpdate(sql).ok THEN ParseUpdate(MatchUpdate(sql))
      ELSE IF MatchDelete(sql).ok THEN ParseDelete(MatchDelete(sql))
      ELSE IF MatchDrop(sql).ok THEN ParseDrop(MatchDrop(sql))
      ELSE ParseError("Invalid SQL statement")

\* ----------------------------------------------------------------- json

\* One JSON token of a serialized row: a literal (null, true, false), a number
\* or a string, with its text.
JsonToken(kind, text) == [kind |-> kind, text |-> text]

\* json.dumps of one value
JsonDump(v) ==
  CASE v.t = "null" -> JsonToken("literal", <<"n","u","l","l">>)
    [] v.t = "bool" -> JsonToken("literal", IF v.n = 1 THEN <<"t","r","u","e">> ELSE <<"f","a","l","s","e">>)
    [] v.t = "int" -> JsonToken("number", IntToStr(v.n))
    [] v.t = "float" -> JsonToken("number", FloatToStr(v.n))
    [] v.t = "str" -> JsonToken("string", v.s)

\* json.loads of one token: a number with a fraction part is a float
JsonLoad(tok) ==
  CASE tok.kind = "string" -> StrV(tok.text)
    [] tok.kind = "number" ->
         IF Contains(tok.text, <<".">>) THEN StrToFloat(tok.text).val
         ELSE StrToInt(tok.text).val
    [] tok.kind = "literal" ->
         IF tok.text = <<"n","u","l","l">> THEN Null ELSE BoolV(tok.text = <<"t","r","u","e">>)

\* json.dumps(row): one line of the data file
DumpsRow(row) == [i \in DOMAIN row |-> <<row[i][1], JsonDump(row[i][2])>>]

\* json.loads(line)
LoadsRow(line) == [i \in DOMAIN line |-> <<line[i][1], JsonLoad(line[i][2])>>]

\* ---------------------------------------------------------------- files

\* A file of the data or the metadata directory: absent, or its content.
NoFile == [exists |-> FALSE, content |-> <<>>]

File(content) == [exists |-> TRUE, content |-> content]

\* ---------------------------------------------------------------- table

\* str(value)
PyStr(v) ==
  CASE v.t = "str" -> v.s
    [] v.t = "int" -> IntToStr(v.n)
    [] v.t = "float" -> FloatToStr(v.n)
    [] v.t = "bool" -> IF v.n = 1 THEN <<"T","r","u","e">> ELSE <<"F","a","l","s","e">>
    [] v.t = "null" -> <<"N","o","n","e">>

\* int(value): a float is truncated towards zero
PyInt(v) ==
  CASE v.t = "str" -> StrToInt(v.s)
    [] v.t = "float" -> Return(IntV(IF v.n < 0 THEN -((-v.n) \div 10) ELSE v.n \div 10))
    [] v.t \in {"int", "bool"} -> Return(IntV(v.n))
    [] v.t = "null" -> Raise("TypeError")

\* float(value)
PyFloat(v) ==
  CASE v.t = "str" -> StrToFloat(v.s)
    [] v.t = "float" -> Return(v)
    [] v.t \in {"int", "bool"} -> Return(FloatV(10 * v.n))
    [] v.t = "null" -> Raise("TypeError")

\* the try of _validate_type: the conversion to the expected type
Convert(value, expectedType) ==
  CASE expectedType = <<"T","E","X","T">> -> Return(StrV(PyStr(value)))
    [] expectedType = <<"I","N","T","E","G","E","R">> -> PyInt(value)
    [] expectedType = <<"F","L","O","A","T">> -> PyFloat(value)
    [] expectedType = <<"B","O","O","L","E","A","N">> ->
         IF value.t = "bool" THEN Return(value)
         ELSE IF value.t = "str" /\ UpperStr(value.s) = <<"T","R","U","E">> THEN Return(BoolV(TRUE))
         ELSE IF value.t = "str" /\ UpperStr(value.s) = <<"F","A","L","S","E">> THEN Return(BoolV(FALSE))
         ELSE Raise("ValueError")
    [] OTHER -> Raise("ValueError")

\* the except of _validate_type: every failure is raised again as a ValueError
AsValueError(conv) == IF conv.raised THEN Raise("ValueError") ELSE conv

\* Table._validate_type handing the value back as it came
ValidateNothing(value, expectedType) == Return(value)

\* Table._validate_type
ValidateType(value, expectedType) ==
  IF value.t = "null" THEN Return(Null) ELSE AsValueError(Convert(value, expectedType))

\* a == b
PyEq(a, b) ==
  IF IsNum(a) /\ IsNum(b) THEN Tenths(a) = Tenths(b)
  ELSE a.t = b.t /\ a = b

\* s < t for two str: by code points, a proper prefix first
RECURSIVE StrLess(_, _)
StrLess(s, t) ==
  IF t = <<>> THEN FALSE
  ELSE IF s = <<>> THEN TRUE
  ELSE IF s[1] # t[1] THEN IndexOf(Ascii, s[1]) < IndexOf(Ascii, t[1])
  ELSE StrLess(Tail(s), Tail(t))

\* a < b: numbers with numbers, str with str; anything else is a TypeError
PyLess(a, b) ==
  IF IsNum(a) /\ IsNum(b) THEN Return(BoolV(Tenths(a) < Tenths(b)))
  ELSE IF a.t = "str" /\ b.t = "str" THEN Return(BoolV(StrLess(a.s, b.s)))
  ELSE Raise("TypeError")

\* a <= b
PyLessEq(a, b) ==
  IF IsNum(a) /\ IsNum(b) THEN Return(BoolV(Tenths(a) <= Tenths(b)))
  ELSE IF a.t = "str" /\ b.t = "str" THEN Return(BoolV(a.s = b.s \/ StrLess(a.s, b.s)))
  ELSE Raise("TypeError")

\* Table._evaluate_where
EvaluateWhere(row, where) ==
  LET rowValue == DictGet(row, where.column)
      value == where.value
      op == where.operator
  IN  IF ~DictHas(row, where.column) THEN Return(BoolV(FALSE))
      ELSE IF rowValue.t = "null" \/ value.t = "null"
        THEN IF op = <<"=">> THEN Return(BoolV(rowValue = value))
             ELSE IF op = <<"!","=">> THEN Return(BoolV(rowValue # value))
             ELSE Return(BoolV(FALSE))
      ELSE IF op = <<"=">> THEN Return(BoolV(PyEq(rowValue, value)))
      ELSE IF op = <<"!","=">> THEN Return(BoolV(~PyEq(rowValue, value)))
      ELSE IF op = <<">">> THEN PyLess(value, rowValue)
      ELSE IF op = <<"<">> THEN PyLess(rowValue, value)
      ELSE IF op = <<">","=">> THEN PyLessEq(value, rowValue)
      ELSE IF op = <<"<","=">> THEN PyLessEq(rowValue, value)
      ELSE Raise("ValueError")

\* The outcome of a table operation: the exception raised or the value
\* returned (a row, a list of rows or a count), and the data file afterwards.
Raised(exc, file) ==
  [raised |-> TRUE, exc |-> exc, row |-> <<>>, rows |-> <<>>, count |-> 0, file |-> file]

Returned(row, rows, count, file) ==
  [raised |-> FALSE, exc |-> "", row |-> row, rows |-> rows, count |-> count, file |-> file]

\* the loop of Table.insert over zip(schema.items(), values), row so far in acc
RECURSIVE InsertRow(_, _, _)
InsertRow(schema, values, acc) ==
  IF schema = <<>> THEN [raised |-> FALSE, row |-> acc]
  ELSE LET v == ValidateType(values[1], schema[1][2])
       IN  IF v.raised THEN [raised |-> TRUE, row |-> <<>>]
           ELSE InsertRow(Tail(schema), Tail(values), DictSet(acc, schema[1][1], v.val))

\* Table.insert writing its line before the values are validated
AppendRowUnvalidated(r, file) ==
  IF r.raised THEN Raised("ValueError", File(Append(file.content, DumpsRow(r.row))))
  ELSE Returned(r.row, <<>>, 0, File(Append(file.content, DumpsRow(r.row))))

\* the end of Table.insert: the validated row is appended to the data file
\* (mode 'a' creates it) and returned
AppendRow(r, file) ==
  IF r.raised THEN Raised("ValueError", file)
  ELSE Returned(r.row, <<>>, 0, File(Append(file.content, DumpsRow(r.row))))

\* Table.insert
Insert(schema, file, values) ==
  IF Len(values) # Len(schema) THEN Raised("ValueError", file)
  ELSE AppendRow(InsertRow(schema, values, <<>>), file)

\* the columns argument of select: None, or a list of names
NoColumns == [some |-> FALSE, names |-> <<>>]

Columns(names) == [some |-> TRUE, names |-> names]

\* {col: row.get(col) for col in columns}: None for a key the row lacks
RECURSIVE Project(_, _, _)
Project(row, columns, acc) ==
  IF columns = <<>> THEN acc
  ELSE Project(row, Tail(columns), DictSet(acc, columns[1],
                       IF DictHas(row, columns[1]) THEN DictGet(row, columns[1]) ELSE Null))

\* list(schema.keys())
SchemaColumns(schema) == [i \in DOMAIN schema |-> schema[i][1]]

\* the scan of Table.select over the lines of the data file
RECURSIVE SelectScan(_, _, _, _)
SelectScan(lines, columns, where, results) ==
  IF lines = <<>> THEN [raised |-> FALSE, exc |-> "", rows |-> results]
  ELSE LET row == LoadsRow(lines[1])
           m == IF where.some THEN EvaluateWhere(row, where) ELSE Return(BoolV(TRUE))
       IN  IF m.raised THEN [raised |-> TRUE, exc |-> m.exc, rows |-> <<>>]
           ELSE IF m.val = BoolV(FALSE) THEN SelectScan(Tail(lines), columns, where, results)
           ELSE SelectScan(Tail(lines), columns, where,
                           Append(results, Project(row, columns, <<>>)))

\* Table.select putting each row it finds in front of the ones found before
SelectRowsReversed(scan, file) ==
  IF scan.raised THEN Raised(scan.exc, file)
  ELSE Returned(<<>>, [i \in DOMAIN scan.rows |-> scan.rows[Len(scan.rows) + 1 - i]], 0, file)

\* the end of Table.select: the rows of the scan are returned
SelectRows(scan, file) ==
  IF scan.raised THEN Raised(scan.exc, file) ELSE Returned(<<>>, scan.rows, 0, file)

\* Table.select, the columns to return at hand
SelectColumns(schema, file, cols, where) ==
  IF \E i \in DOMAIN cols : ~DictHas(schema, cols[i]) THEN Raised("ValueError", file)
  ELSE IF ~file.exists THEN Returned(<<>>, <<>>, 0, file)
  ELSE SelectRows(SelectScan(file.content, cols, where, <<>>), file)

\* Table.select: no columns, or the one column '*', stand for all columns
Select(schema, file, columns, where) ==
  SelectColumns(schema, file,
                IF ~columns.some \/ columns.names = <<(<<"*">>)>>
                THEN SchemaColumns(schema) ELSE columns.names,
                where)

\* the validation loop of Table.update over updates.items(), validated so far in acc
RECURSIVE ValidateUpdates(_, _, _)
ValidateUpdates(schema, updates, acc) ==
  IF updates = <<>> THEN [raised |-> FALSE, updates |-> acc]
  ELSE LET colName == updates[1][1]
           v == ValidateType(updates[1][2], DictGet(schema, colName))
       IN  IF ~DictHas(schema, colName) THEN [raised |-> TRUE, updates |-> <<>>]
           ELSE IF v.raised THEN [raised |-> TRUE, updates |-> <<>>]
           ELSE ValidateUpdates(schema, Tail(updates), DictSet(acc, colName, v.val))

\* the scan of Table.update keeping the rows it updates only
RECURSIVE UpdateScanMatchedOnly(_, _, _, _, _)
UpdateScanMatchedOnly(lines, updates, where, rows, count) ==
  IF lines = <<>> THEN [raised |-> FALSE, exc |-> "", rows |-> rows, count |-> count]
  ELSE IF where.some /\ EvaluateWhere(LoadsRow(lines[1]), where).raised
    THEN [raised |-> TRUE, exc |-> EvaluateWhere(LoadsRow(lines[1]), where).exc,
          rows |-> <<>>, count |-> 0]
  ELSE IF where.some /\ EvaluateWhere(LoadsRow(lines[1]), where).val = BoolV(FALSE)
    THEN UpdateScanMatchedOnly(Tail(lines), updates, where, rows, count)
  ELSE UpdateScanMatchedOnly(Tail(lines), updates, where,
                             Append(rows, DictUpdate(LoadsRow(lines[1]), updates)), count + 1)

\* the scan of Table.update: a matching row is updated and counted, and every
\* row is kept
RECURSIVE UpdateScan(_, _, _, _, _)
UpdateScan(lines, updates, where, rows, count) ==
  IF lines = <<>> THEN [raised |-> FALSE, exc |-> "", rows |-> rows, count |-> count]
  ELSE LET row == LoadsRow(lines[1])
           m == IF where.some THEN EvaluateWhere(row, where) ELSE Return(BoolV(TRUE))
       IN  IF m.raised THEN [raised |-> TRUE, exc |-> m.exc, rows |-> <<>>, count |-> 0]
           ELSE IF m.val = BoolV(FALSE)
             THEN UpdateScan(Tail(lines), updates, where, Append(rows, row), count)
           ELSE UpdateScan(Tail(lines), updates, where,
                           Append(rows, DictUpdate(row, updates)), count + 1)

\* the end of Table.update and Table.delete with the data file opened for
\* writing before the scan ends
RewriteTruncatesFirst(scan, file) ==
  IF scan.raised THEN Raised(scan.exc, File(<<>>))
  ELSE Returned(<<>>, <<>>, scan.count,
                File([i \in DOMAIN scan.rows |-> DumpsRow(scan.rows[i])]))

\* the end of Table.update and Table.delete: the rows of the scan are written
\* back, one line per row, and the count is returned
Rewrite(scan, file) ==
  IF scan.raised THEN Raised(scan.exc, file)
  ELSE Returned(<<>>, <<>>, scan.count,
                File([i \in DOMAIN scan.rows |-> DumpsRow(scan.rows[i])]))

\* Table.update, the updates validated
UpdateRows(u, file, where) ==
  IF u.raised THEN Raised("ValueError", file)
  ELSE IF ~file.exists THEN Returned(<<>>, <<>>, 0, file)
  ELSE Rewrite(UpdateScan(file.content, u.updates, where, <<>>, 0), file)

\* Table.update applying the updates as given, not as validated
UpdateUnconverted(schema, file, updates, where) ==
  IF ValidateUpdates(schema, updates, <<>>).raised THEN Raised("ValueError", file)
  ELSE UpdateRows([raised |-> FALSE, updates |-> updates], file, where)

\* Table.update
Update(schema, file, updates, where) ==
  UpdateRows(ValidateUpdates(schema, updates, <<>>), file, where)

\* the scan of Table.delete: a matching row is counted, any other row is kept
RECURSIVE DeleteScan(_, _, _, _)
DeleteScan(lines, where, rows, count) ==
  IF lines = <<>> THEN [raised |-> FALSE, exc |-> "", rows |-> rows, count |-> count]
  ELSE LET row == LoadsRow(lines[1])
           m == IF where.some THEN EvaluateWhere(row, where) ELSE Return(BoolV(TRUE))
       IN  IF m.raised THEN [raised |-> TRUE, exc |-> m.exc, rows |-> <<>>, count |-> 0]
           ELSE IF m.val = BoolV(FALSE)
             THEN DeleteScan(Tail(lines), where, Append(rows, row), count)
           ELSE DeleteScan(Tail(lines), where, rows, count + 1)

\* Table.delete returning the number of rows it kept
DeleteCountsKept(file, where) ==
  IF ~file.exists THEN Returned(<<>>, <<>>, 0, file)
  ELSE Returned(<<>>, <<>>, Len(DeleteScan(file.content, where, <<>>, 0).rows),
                Rewrite(DeleteScan(file.content, where, <<>>, 0), file).file)

\* Table.delete
Delete(file, where) ==
  IF ~file.exists THEN Returned(<<>>, <<>>, 0, file)
  ELSE Rewrite(DeleteScan(file.content, where, <<>>, 0), file)

\* --------------------------------------------------------------- inputs

\* the most rows the data directory holds in the model, over all tables
MaxRows == 2

\* the names a file of either directory can carry; ghosts is never created
Tables == << <<"u","s","e","r","s">>, <<"i","t","e","m","s">>, <<"g","h","o","s","t","s">> >>

TableNames == Range(Tables)

\* the script of the specification's scenario (src/smoke.py runs its start)
Scenario ==
  << <<"C","R","E","A","T","E"," ","T","A","B","L","E"," ","u","s","e","r","s"," ","(","i","d"," ","i","n","t",","," ","n","a","m","e"," ","s","t","r",")">>,
     <<"I","N","S","E","R","T"," ","I","N","T","O"," ","u","s","e","r","s"," ","(","i","d",",","n","a","m","e",")"," ","V","A","L","U","E","S"," ","(","1",",","'","A","l","i","c","e","'",")">>,
     <<"S","E","L","E","C","T"," ","*"," ","F","R","O","M"," ","u","s","e","r","s"," ","W","H","E","R","E"," ","i","d","=","1">>,
     <<"U","P","D","A","T","E"," ","u","s","e","r","s"," ","S","E","T"," ","n","a","m","e","=","'","B","o","b","'"," ","W","H","E","R","E"," ","i","d","=","1">>,
     <<"S","E","L","E","C","T"," ","*"," ","F","R","O","M"," ","u","s","e","r","s"," ","W","H","E","R","E"," ","i","d","=","1">>,
     <<"D","E","L","E","T","E"," ","F","R","O","M"," ","u","s","e","r","s"," ","W","H","E","R","E"," ","i","d","=","1">>,
     <<"S","E","L","E","C","T"," ","*"," ","F","R","O","M"," ","u","s","e","r","s">> >>

\* the statements handed to execute
Statements ==
  Range(Scenario) \cup
  { <<"C","R","E","A","T","E"," ","T","A","B","L","E"," ","u","s","e","r","s"," ","(","i","d"," ","I","N","T","E","G","E","R",","," ","n","a","m","e"," ","T","E","X","T",")">>,
    <<"c","r","e","a","t","e"," ","t","a","b","l","e"," ","i","t","e","m","s"," ","(","o","k"," ","b","o","o","l","e","a","n",","," ","p","r","i","c","e"," ","f","l","o","a","t",")",";">>,
    <<"C","R","E","A","T","E"," ","T","A","B","L","E"," ","u","s","e","r","s"," ","(","n","a","m","e"," ","T","E","X","T",","," ","i","d"," ","I","N","T","E","G","E","R",")">>,
    <<"I","N","S","E","R","T"," ","I","N","T","O"," ","u","s","e","r","s"," ","V","A","L","U","E","S"," ","(","1",",","'","A","l","i","c","e","'",")">>,
    <<"I","N","S","E","R","T"," ","I","N","T","O"," ","u","s","e","r","s"," ","V","A","L","U","E","S"," ","(","'","x","'",","," ","'","B","o","b","'",")">>,
    <<"I","N","S","E","R","T"," ","I","N","T","O"," ","u","s","e","r","s"," ","V","A","L","U","E","S"," ","(","2",")">>,
    <<"I","N","S","E","R","T"," ","I","N","T","O"," ","i","t","e","m","s"," ","V","A","L","U","E","S"," ","(","t","r","u","e",","," ","1",".","5",")">>,
    <<"S","E","L","E","C","T"," ","n","a","m","e"," ","F","R","O","M"," ","u","s","e","r","s"," ","W","H","E","R","E"," ","i","d"," ",">","="," ","1">>,
    <<"S","E","L","E","C","T"," ","*"," ","F","R","O","M"," ","u","s","e","r","s"," ","W","H","E","R","E"," ","n","a","m","e"," ",">"," ","1">>,
    <<"S","E","L","E","C","T"," ","n","o","p","e"," ","F","R","O","M"," ","u","s","e","r","s">>,
    <<"S","E","L","E","C","T"," ","*"," ","F","R","O","M"," ","g","h","o","s","t","s">>,
    <<"S","E","L","E","C","T"," ","*"," ","F","R","O","M"," ","u","s","e","r","s"," ","L","I","M","I","T"," ","1">>,
    <<"S","E","L","E","C","T"," ","*"," ","F","R","O","M"," ","u","s","e","r","s"," ","W","H","E","R","E"," ","i","d","=","1"," ","A","N","D"," ","n","a","m","e","=","'","A","l","i","c","e","'">>,
    <<"U","P","D","A","T","E"," ","u","s","e","r","s"," ","S","E","T"," ","n","a","m","e","=","'","B","o","b","'">>,
    <<"D","E","L","E","T","E"," ","F","R","O","M"," ","u","s","e","r","s">>,
    <<"D","E","L","E","T","E"," ","F","R","O","M"," ","i","t","e","m","s"," ","W","H","E","R","E"," ","o","k","=","T","R","U","E">>,
    <<"D","R","O","P"," ","T","A","B","L","E"," ","u","s","e","r","s">>,
    <<"D","R","O","P"," ","T","A","B","L","E"," ","i","t","e","m","s">>,
    <<"S","E","L","E","C","T">>,
    <<>> }

\* statements of the dialect the parser is documented to accept or reject
DialectStatements ==
  { <<"U","P","D","A","T","E"," ","u","s","e","r","s"," ","S","E","T"," ","i","d","=","2",","," ","n","a","m","e","=","'","B","o","b","'"," ","W","H","E","R","E"," ","i","d","=","1">>,
    <<"S","E","L","E","C","T"," ","*"," ","F","R","O","M"," ","u","s","e","r","s"," ","W","H","E","R","E"," ","i","d","=","1",";">>,
    <<"D","R","O","P"," ","T","A","B","L","E"," ","u","s","e","r","s",";">>,
    <<"I","N","S","E","R","T"," ","I","N","T","O"," ","u","s","e","r","s"," ","V","A","L","U","E","S"," ","(","1",",","'","A","l","i","c","e","'",")",";">>,
    <<"I","N","S","E","R","T"," ","I","N","T","O"," ","u","s","e","r","s"," ","V","A","L","U","E","S"," ","(","1",","," ","'","a",",","b","'",")">>,
    <<"S","E","L","E","C","T"," ","*"," ","F","R","O","M"," ","u","s","e","r","s"," ","W","H","E","R","E"," ","n","a","m","e","=","'","a","!","=","b","'">>,
    <<"S","E","L","E","C","T"," ","*"," ","F","R","O","M"," ","u","s","e","r","s"," ","W","H","E","R","E"," ","n","a","m","e"," ","="," ","'","x"," ","A","N","D"," ","y","'">>,
    <<"H","E","L","L","O"," ","w","o","r","l","d">>,
    <<"D","R","O","P"," ","T","A","B","L","E"," ","u","s","e","r","s"," ","n","o","w">>,
    <<"D","E","L","E","T","E"," ","F","R","O","M"," ","u","s","e","r","s"," ","W","H","E","R","E">>,
    <<"D","E","L","E","T","E"," ","F","R","O","M"," ","u","s","e","r","s"," ","i","d","=","1">>,
    <<"D","E","L","E","T","E"," ","F","R","O","M"," ","u","s","e","r","s"," ","W","H","E","R","E"," ","i","d">>,
    <<"S","E","L","E","C","T"," ","*"," ","F","R","O","M"," ","u","s","e","r","s"," ","W","H","E","R","E"," ","n","o","p","e"," ","="," ","N","U","L","L">>,
    <<"S","E","L","E","C","T"," ","*"," ","F","R","O","M"," ","u","s","e","r","s"," ","W","H","E","R","E"," ","i","d"," ","!","="," ","N","U","L","L">>,
    <<"S","E","L","E","C","T"," ","*"," ","F","R","O","M"," ","u","s","e","r","s"," ","W","H","E","R","E"," ","i","d"," ","<","="," ","N","U","L","L">> }

\* the value lists handed to Table.insert
InsertValues ==
  { <<IntV(1), StrV(<<"A","l","i","c","e">>)>>,
    <<IntV(2), StrV(<<"B","o","b">>)>>,
    <<StrV(<<"2">>), IntV(1)>>,
    <<StrV(<<"x">>), StrV(<<"A","l","i","c","e">>)>>,
    <<Null, StrV(<<"B","o","b">>)>>,
    <<FloatV(15), StrV(<<"A","l","i","c","e">>)>>,
    <<BoolV(TRUE), StrV(<<"1">>)>>,
    <<StrV(<<"f","a","l","s","e">>), Null>>,
    <<IntV(1)>> }

\* the update dicts handed to Table.update
UpdateSets ==
  { << <<<<"n","a","m","e">>, StrV(<<"B","o","b">>)>> >>,
    << <<<<"i","d">>, StrV(<<"2">>)>>, <<<<"n","a","m","e">>, IntV(1)>> >>,
    << <<<<"i","d">>, StrV(<<"x">>)>> >>,
    << <<<<"n","a","m","e">>, StrV(<<"A","l","i","c","e">>)>>, <<<<"n","o","p","e">>, IntV(1)>> >>,
    << <<<<"p","r","i","c","e">>, IntV(2)>> >> }

\* the where dicts handed to select, update and delete
Wheres ==
  { NoWhere,
    Where(<<"i","d">>, <<"=">>, IntV(1)),
    Where(<<"i","d">>, <<">">>, IntV(1)),
    Where(<<"i","d">>, <<"=">>, Null),
    Where(<<"n","a","m","e">>, <<"!","=">>, StrV(<<"B","o","b">>)),
    Where(<<"n","a","m","e">>, <<"<">>, IntV(1)),
    Where(<<"n","o","p","e">>, <<"=">>, IntV(1)),
    Where(<<"o","k">>, <<"=">>, BoolV(TRUE)) }

\* the column lists handed to Table.select
ColumnLists ==
  { NoColumns,
    Columns(<< <<"*">> >>),
    Columns(<<<<"n","a","m","e">>, <<"i","d">>, <<"n","a","m","e">>>>),
    Columns(<<<<"n","o","p","e">>>>) }

\* Parse, tabulated once over the statements of the model
ParseTable == [sql \in Statements \cup DialectStatements |-> Parse(sql)]


\* ------------------------------------------------------------- database

\* the file of a directory under a name
FileAt(dir, name) == IF name \in DOMAIN dir THEN dir[name] ELSE NoFile

\* Database.table_exists
TableExists(metadata, name) == FileAt(metadata, name).exists

\* Table.load: the schema of the metadata file (the caller has checked that
\* the file exists)
LoadSchema(metadata, name) == FileAt(metadata, name).content

\* Database.list_tables without the sort, the directory listing coming in
\* the opposite order
ListTablesUnsorted(metadata) ==
  LET names == {n \in DOMAIN metadata : metadata[n].exists}
  IN  [i \in 1..Cardinality(names) |->
         CHOOSE n \in names : Cardinality({m \in names : StrLess(n, m)}) = i - 1]

\* Database.list_tables: the names of the metadata files, sorted
ListTables(metadata) ==
  LET names == {n \in DOMAIN metadata : metadata[n].exists}
  IN  [i \in 1..Cardinality(names) |->
         CHOOSE n \in names : Cardinality({m \in names : StrLess(m, n)}) = i - 1]

\* Database.get_table_schema: Table.load raises when the metadata file is
\* missing, else the schema it read is returned
GetTableSchema(metadata, name) ==
  IF ~TableExists(metadata, name) THEN Raise("FileNotFoundError")
  ELSE Return(LoadSchema(metadata, name))

\* Database.__init__ making its directories anew
OpenEmptied(dir) == [n \in DOMAIN dir |-> NoFile]

\* Database.__init__ on a directory: os.makedirs(exist_ok=True) creates it
\* when it is missing and leaves the files of an existing one alone
Open(dir) == dir

\* The dict that execute returns: keys holds the keys that are present.
Result(keys, success, error) ==
  [keys |-> keys, success |-> success, error |-> error, table |-> <<>>,
   columns |-> <<>>, row |-> <<>>, rows |-> <<>>, count |-> 0]

Failure(error) == Result({"success", "error"}, FALSE, error)

\* What a call leaves behind: the exception that left it or the dict it
\* returned, and the two directories.
Done(result, metadata, data) ==
  [raised |-> FALSE, exc |-> "", result |-> result, metadata |-> metadata, data |-> data]

Thrown(exc, metadata, data) ==
  [raised |-> TRUE, exc |-> exc, result |-> Result({}, FALSE, ""), metadata |-> metadata,
   data |-> data]

\* Database._execute_create saving the columns in the opposite order
ExecuteCreateReversed(cmd, metadata, data) ==
  IF TableExists(metadata, cmd.table)
  THEN Done(Failure("already exists"), metadata, data)
  ELSE Done([Result({"success", "message", "table"}, TRUE, "") EXCEPT !.table = cmd.table],
            [metadata EXCEPT ![cmd.table] =
               File([i \in DOMAIN cmd.columns |-> cmd.columns[Len(cmd.columns) + 1 - i]])],
            [data EXCEPT ![cmd.table] = File(<<>>)])

\* Database._execute_create without the look for an existing table
ExecuteCreateOverwrites(cmd, metadata, data) ==
  Done([Result({"success", "message", "table"}, TRUE, "") EXCEPT !.table = cmd.table],
       [metadata EXCEPT ![cmd.table] = File(cmd.columns)],
       [data EXCEPT ![cmd.table] = File(<<>>)])

\* Database._execute_create, with Table.create: the metadata file is written
\* and an empty data file is created
ExecuteCreate(cmd, metadata, data) ==
  IF TableExists(metadata, cmd.table)
  THEN Done(Failure("already exists"), metadata, data)
  ELSE Done([Result({"success", "message", "table"}, TRUE, "") EXCEPT !.table = cmd.table],
            [metadata EXCEPT ![cmd.table] = File(cmd.columns)],
            [data EXCEPT ![cmd.table] = File(<<>>)])

\* Database._execute_drop removing every file of the two directories
ExecuteDropAll(cmd, metadata, data) ==
  IF ~TableExists(metadata, cmd.table)
  THEN Done(Failure("does not exist"), metadata, data)
  ELSE Done([Result({"success", "message", "table"}, TRUE, "") EXCEPT !.table = cmd.table],
            [n \in DOMAIN metadata |-> NoFile], [n \in DOMAIN data |-> NoFile])

\* Database._execute_drop removing the metadata file only
ExecuteDropKeepsRows(cmd, metadata, data) ==
  IF ~TableExists(metadata, cmd.table)
  THEN Done(Failure("does not exist"), metadata, data)
  ELSE Done([Result({"success", "message", "table"}, TRUE, "") EXCEPT !.table = cmd.table],
            [metadata EXCEPT ![cmd.table] = NoFile], data)

\* Database._execute_drop, with Table.drop: both files are removed
ExecuteDrop(cmd, metadata, data) ==
  IF ~TableExists(metadata, cmd.table)
  THEN Done(Failure("does not exist"), metadata, data)
  ELSE Done([Result({"success", "message", "table"}, TRUE, "") EXCEPT !.table = cmd.table],
            [metadata EXCEPT ![cmd.table] = NoFile],
            [data EXCEPT ![cmd.table] = NoFile])

\* the return of _execute_insert
Inserted(cmd, out, metadata, data) ==
  IF out.raised THEN Thrown(out.exc, metadata, [data EXCEPT ![cmd.table] = out.file])
  ELSE Done([Result({"success", "message", "table", "row"}, TRUE, "") EXCEPT
               !.table = cmd.table, !.row = out.row],
            metadata, [data EXCEPT ![cmd.table] = out.file])

\* Database._execute_insert without the look for the table
ExecuteInsertUnchecked(cmd, metadata, data) ==
  Inserted(cmd, Insert(LoadSchema(metadata, cmd.table), FileAt(data, cmd.table), cmd.values),
           metadata, data)

\* Database._execute_insert
ExecuteInsert(cmd, metadata, data) ==
  IF ~TableExists(metadata, cmd.table) THEN Done(Failure("does not exist"), metadata, data)
  ELSE Inserted(cmd, Insert(LoadSchema(metadata, cmd.table), FileAt(data, cmd.table),
                            cmd.values),
                metadata, data)

\* the return of _execute_select
Selected(cmd, out, metadata, data) ==
  IF out.raised THEN Thrown(out.exc, metadata, [data EXCEPT ![cmd.table] = out.file])
  ELSE Done([Result({"success", "table", "columns", "rows", "count"}, TRUE, "") EXCEPT
               !.table = cmd.table, !.columns = cmd.columns, !.rows = out.rows,
               !.count = Len(out.rows)],
            metadata, [data EXCEPT ![cmd.table] = out.file])

\* Database._execute_select
ExecuteSelect(cmd, metadata, data) ==
  IF ~TableExists(metadata, cmd.table) THEN Done(Failure("does not exist"), metadata, data)
  ELSE Selected(cmd, Select(LoadSchema(metadata, cmd.table), FileAt(data, cmd.table),
                            Columns(cmd.columns), cmd.where),
                metadata, data)

\* the return of _execute_update and of _execute_delete
Counted(cmd, out, metadata, data) ==
  IF out.raised THEN Thrown(out.exc, metadata, [data EXCEPT ![cmd.table] = out.file])
  ELSE Done([Result({"success", "message", "table", "count"}, TRUE, "") EXCEPT
               !.table = cmd.table, !.count = out.count],
            metadata, [data EXCEPT ![cmd.table] = out.file])

\* Database._execute_update
ExecuteUpdate(cmd, metadata, data) ==
  IF ~TableExists(metadata, cmd.table) THEN Done(Failure("does not exist"), metadata, data)
  ELSE Counted(cmd, Update(LoadSchema(metadata, cmd.table), FileAt(data, cmd.table),
                           cmd.updates, cmd.where),
               metadata, data)

\* Database._execute_delete
ExecuteDelete(cmd, metadata, data) ==
  IF ~TableExists(metadata, cmd.table) THEN Done(Failure("does not exist"), metadata, data)
  ELSE Counted(cmd, Delete(FileAt(data, cmd.table), cmd.where), metadata, data)

\* the dispatch of Database.execute on the type of the parsed command
Dispatch(parsed, metadata, data) ==
  IF parsed.raised THEN Thrown(parsed.msg, metadata, data)
  ELSE CASE parsed.cmd.type = "CREATE" -> ExecuteCreate(parsed.cmd, metadata, data)
         [] parsed.cmd.type = "DROP" -> ExecuteDrop(parsed.cmd, metadata, data)
         [] parsed.cmd.type = "INSERT" -> ExecuteInsert(parsed.cmd, metadata, data)
         [] parsed.cmd.type = "SELECT" -> ExecuteSelect(parsed.cmd, metadata, data)
         [] parsed.cmd.type = "UPDATE" -> ExecuteUpdate(parsed.cmd, metadata, data)
         [] parsed.cmd.type = "DELETE" -> ExecuteDelete(parsed.cmd, metadata, data)
         [] OTHER -> Thrown("Unsupported command type", metadata, data)

\* Database.execute without its except
Uncaught(r) == r

\* the except of Database.execute: whatever the try raises comes back as a
\* failure dict
Caught(r) == IF r.raised THEN Done(Failure(r.exc), r.metadata, r.data) ELSE r

\* Database.execute
Execute(sql, metadata, data) == Caught(Dispatch(ParseTable[sql], metadata, data))

\* ---------------------------------------------------------------- state

VARIABLES
  metadata,  \* the metadata directory: table name -> schema file
  data,      \* the data directory: table name -> data file, a line per row
  last,      \* the last call: its arguments, the files before it, its outcome
  scen,      \* statements of the scenario run so far on a fresh database; -1 once anything else ran
  pkLog,     \* the row log of the primary-key table: its row objects, in order
  pkIndex,   \* the primary-key index: key -> identity of a row object
  pkLast,    \* the last call on the primary-key table
  pending    \* the update or delete of a second caller that has read the log and not yet written it back

vars == <<metadata, data, last, scen, pkLog, pkIndex, pkLast, pending>>

dbVars == <<metadata, data, last, scen, pending>>

pkVars == <<pkLog, pkIndex, pkLast>>

\* the rows of a data file
Rows(file) == [i \in DOMAIN file.content |-> LoadsRow(file.content[i])]

TotalRows(dir) ==
  Len(dir[Tables[1]].content) + Len(dir[Tables[2]].content) + Len(dir[Tables[3]].content)

\* the record of a call
Call(op, table) ==
  [op |-> op, table |-> table, sql |-> <<>>, values |-> <<>>, columns |-> NoColumns,
   updates |-> <<>>, where |-> NoWhere, schema |-> <<>>,
   metadataBefore |-> metadata, dataBefore |-> data,
   out |-> Returned(<<>>, <<>>, 0, NoFile), raised |-> FALSE, result |-> Result({}, FALSE, "")]

\* no call is under way: the caller is ready to make the next one
Ready ==
  [op |-> "ready", table |-> <<>>, sql |-> <<>>, values |-> <<>>, columns |-> NoColumns,
   updates |-> <<>>, where |-> NoWhere, schema |-> <<>>,
   metadataBefore |-> [n \in TableNames |-> NoFile],
   dataBefore |-> [n \in TableNames |-> NoFile],
   out |-> Returned(<<>>, <<>>, 0, NoFile), raised |-> FALSE, result |-> Result({}, FALSE, "")]

\* no second caller is between reading a log and writing it back
NoRewrite ==
  [op |-> "none", table |-> <<>>, read |-> NoFile, out |-> Returned(<<>>, <<>>, 0, NoFile)]

\* Database.__init__: both directories exist and are empty
Init ==
  /\ metadata = [n \in TableNames |-> NoFile]
  /\ data = [n \in TableNames |-> NoFile]
  /\ last = Ready
  /\ scen = 0
  /\ pending = NoRewrite
  /\ pkLog = <<>>
  /\ pkIndex = [k \in {} |-> 0]
  /\ pkLast = [op |-> "ready", key |-> Null, raised |-> FALSE, exc |-> "", count |-> 0,
               found |-> <<>>, logBefore |-> <<>>, indexBefore |-> [k \in {} |-> 0]]

\* db.execute(sql)
Run(sql) ==
  /\ last = Ready
  /\ \E r \in {Execute(sql, metadata, data)} :
       /\ TotalRows(r.data) <= MaxRows
       /\ metadata' = r.metadata
       /\ data' = r.data
       /\ last' = [Call("execute", <<>>) EXCEPT !.sql = sql, !.raised = r.raised,
                                                !.result = r.result]

\* a statement is executed
ExecuteStatement ==
  \E sql \in Statements :
    /\ Run(sql)
    /\ scen' = -1
    /\ UNCHANGED <<pkVars, pending>>

\* a statement of the documented dialect is executed
ExecuteDialect ==
  \E sql \in DialectStatements :
    /\ Run(sql)
    /\ scen' = -1
    /\ UNCHANGED <<pkVars, pending>>

\* the next statement of the scenario is executed
ScenarioStep ==
  /\ scen \in 0..(Len(Scenario) - 1)
  /\ Run(Scenario[scen + 1])
  /\ scen' = scen + 1
  /\ UNCHANGED <<pkVars, pending>>

\* Table.load(name).insert(values): load raises when the table is missing
TableInsert ==
  /\ last = Ready
  /\ \E name \in TableNames, values \in InsertValues :
       \E out \in {IF TableExists(metadata, name)
                    THEN Insert(LoadSchema(metadata, name), data[name], values)
                    ELSE Raised("FileNotFoundError", data[name])} :
            /\ TotalRows([data EXCEPT ![name] = out.file]) <= MaxRows
            /\ data' = [data EXCEPT ![name] = out.file]
            /\ last' = [Call("insert", name) EXCEPT !.values = values, !.out = out,
                          !.schema = LoadSchema(metadata, name), !.raised = out.raised]
  /\ scen' = -1
  /\ UNCHANGED <<metadata, pkVars, pending>>

\* Table.load(name).select(columns, where)
TableSelect ==
  /\ last = Ready
  /\ \E name \in TableNames, columns \in ColumnLists, where \in Wheres :
       \E out \in {IF TableExists(metadata, name)
                    THEN Select(LoadSchema(metadata, name), data[name], columns, where)
                    ELSE Raised("FileNotFoundError", data[name])} :
            last' = [Call("select", name) EXCEPT !.columns = columns, !.where = where,
                       !.out = out, !.schema = LoadSchema(metadata, name),
                       !.raised = out.raised]
  /\ scen' = -1
  /\ UNCHANGED <<metadata, data, pkVars, pending>>

\* Table.load(name).update(updates, where)
TableUpdate ==
  /\ last = Ready
  /\ \E name \in TableNames, updates \in UpdateSets, where \in Wheres :
       \E out \in {IF TableExists(metadata, name)
                    THEN Update(LoadSchema(metadata, name), data[name], updates, where)
                    ELSE Raised("FileNotFoundError", data[name])} :
            /\ data' = [data EXCEPT ![name] = out.file]
            /\ last' = [Call("update", name) EXCEPT !.updates = updates, !.where = where,
                          !.out = out, !.schema = LoadSchema(metadata, name),
                          !.raised = out.raised]
  /\ scen' = -1
  /\ UNCHANGED <<metadata, pkVars, pending>>

\* Table.load(name).delete(where)
TableDelete ==
  /\ last = Ready
  /\ \E name \in TableNames, where \in Wheres :
       \E out \in {IF TableExists(metadata, name)
                    THEN Delete(data[name], where)
                    ELSE Raised("FileNotFoundError", data[name])} :
            /\ data' = [data EXCEPT ![name] = out.file]
            /\ last' = [Call("delete", name) EXCEPT !.where = where, !.out = out,
                          !.schema = LoadSchema(metadata, name), !.raised = out.raised]
  /\ scen' = -1
  /\ UNCHANGED <<metadata, pkVars, pending>>

\* db.list_tables()
ListTablesCall ==
  /\ last = Ready
  /\ last' = [Call("list_tables", <<>>) EXCEPT !.out.rows = ListTables(metadata)]
  /\ scen' = -1
  /\ UNCHANGED <<metadata, data, pkVars, pending>>

\* db.get_table_schema(name)
GetTableSchemaCall ==
  /\ last = Ready
  /\ \E name \in TableNames :
       \E out \in {GetTableSchema(metadata, name)} :
         last' = [Call("get_table_schema", name) EXCEPT !.schema = out.val,
                    !.raised = out.raised, !.out.raised = out.raised, !.out.exc = out.exc]
  /\ scen' = -1
  /\ UNCHANGED <<metadata, data, pkVars, pending>>

\* Database(data_dir, metadata_dir): another instance is opened on the
\* directories of the first
Reopen ==
  /\ last = Ready
  /\ metadata' = Open(metadata)
  /\ data' = Open(data)
  /\ last' = Call("open", <<>>)
  /\ scen' = -1
  /\ UNCHANGED <<pkVars, pending>>

\* the caller has looked at the outcome of its call and is ready for the next
\* one (the loop of repl in src/main.py)
NextCall ==
  /\ last # Ready
  /\ last' = Ready
  /\ UNCHANGED <<metadata, data, scen, pkVars, pending>>


\* ------------------------------------------------- two callers, one table

\* Table.update and Table.delete read every line of the data file, close it,
\* and then open it again for writing (with open(..., 'r') and then
\* with open(..., 'w')).  Run by a second caller, the two halves are two
\* steps, and the first caller's calls can come between them.

\* the first half of Table.load(name).update(updates, where) or
\* Table.load(name).delete(where): the validation and the scan.  A call that
\* raises, and one that finds no data file, ends here; otherwise the rows to
\* write and the count to return are held until the second half.
ReadLog ==
  /\ last = Ready
  /\ pending = NoRewrite
  /\ \E name \in TableNames, where \in Wheres :
       \E call \in
            {[op |-> "delete",
              out |-> IF TableExists(metadata, name) THEN Delete(data[name], where)
                      ELSE Raised("FileNotFoundError", data[name])]}
            \cup {[op |-> "update",
                   out |-> IF TableExists(metadata, name)
                           THEN Update(LoadSchema(metadata, name), data[name], updates, where)
                           ELSE Raised("FileNotFoundError", data[name])] :
                    updates \in UpdateSets} :
         IF call.out.raised \/ ~data[name].exists
         THEN /\ last' = [Call(call.op, name) EXCEPT !.out = call.out,
                                                     !.raised = call.out.raised]
              /\ pending' = pending
         ELSE /\ last' = last
              /\ pending' = [op |-> call.op, table |-> name, read |-> data[name],
                             out |-> call.out]
  /\ scen' = -1
  /\ UNCHANGED <<metadata, data, pkVars>>

\* the second half keeping the lines appended since the scan
WriteBackKeepsNew ==
  /\ last = Ready
  /\ pending # NoRewrite
  /\ data' = [data EXCEPT ![pending.table] =
                File(pending.out.file.content \o
                     SubSeq(data[pending.table].content, Len(pending.read.content) + 1,
                            Len(data[pending.table].content)))]
  /\ last' = [Call("rewrite", pending.table) EXCEPT !.out = pending.out]
  /\ pending' = NoRewrite
  /\ scen' = -1
  /\ UNCHANGED <<metadata, pkVars>>

\* the second half: the data file is opened for writing, which empties it, the
\* rows of the scan are written, and the count is returned
WriteBack ==
  /\ last = Ready
  /\ pending # NoRewrite
  /\ data' = [data EXCEPT ![pending.table] = pending.out.file]
  /\ last' = [Call("rewrite", pending.table) EXCEPT !.out = pending.out]
  /\ pending' = NoRewrite
  /\ scen' = -1
  /\ UNCHANGED <<metadata, pkVars>>
\* ---------------------------------------------------- primary-key table

\* The table engine with a primary key (spec.md, sections 3 and 4.3): the
\* table has the columns id (INTEGER, the primary key) and name (STRING).  A
\* row is a row object [oid, id, name]: oid is its identity, and the index
\* maps a key to the identity of the row it refers to.

\* the most rows the row log holds in the model
MaxPkRows == 2

\* the set clauses handed to update: column, value
PkSets ==
  {<<"id", k>> : k \in {IntV(1), IntV(2), Null, StrV(<<"x">>)}} \cup {<<"name", StrV(<<"b">>)>>}

\* the predicates handed to update and delete: none, or one
PkWheres ==
  {<<>>} \cup {<< <<"id", "=", k>> >> : k \in {IntV(1), IntV(2), Null}}
         \cup {<< <<"name", "=", StrV(<<"a">>)>> >>, << <<"name", "!=", StrV(<<"a">>)>> >>,
               << <<"id", ">", IntV(1)>> >>}

\* coercion of a value to the type of a column: a missing value stays null, a
\* string column takes to_string, an integer column parses an integer
PkCoerce(v, type) ==
  IF v.t = "null" THEN Return(Null)
  ELSE IF type = "STRING" THEN Return(StrV(PyStr(v)))
  ELSE IF PyInt(v).raised THEN Raise("TypeError")
  ELSE PyInt(v)

PkColumn(row, column) == IF column = "id" THEN row.id ELSE row.name

\* one predicate on a row: = and != compare with null by presence; the
\* ordering operators need two comparable values, and a comparison that
\* fails excludes the row
PkHolds(row, p) ==
  IF p[3].t = "null" \/ PkColumn(row, p[1]).t = "null"
  THEN IF p[2] = "=" THEN PkColumn(row, p[1]) = p[3]
       ELSE IF p[2] = "!=" THEN PkColumn(row, p[1]) # p[3]
       ELSE FALSE
  ELSE IF p[2] = "=" THEN PyEq(PkColumn(row, p[1]), p[3])
  ELSE IF p[2] = "!=" THEN ~PyEq(PkColumn(row, p[1]), p[3])
  ELSE /\ ~PyLess(p[3], PkColumn(row, p[1])).raised
       /\ PyLess(p[3], PkColumn(row, p[1])).val = BoolV(TRUE)

\* a row is retained iff it satisfies every predicate
PkMatches(row, where) == \A i \in DOMAIN where : PkHolds(row, where[i])

\* index without the mapping of a key, and with a key mapped to a row
PkUnmap(index, key) == [k \in DOMAIN index \ {key} |-> index[k]]

PkMap(index, key, oid) == [k \in DOMAIN index \cup {key} |-> IF k = key THEN oid ELSE index[k]]

\* the identity of a new row object: one that no row of the log and no entry
\* of the index carries
PkFresh(log, index) ==
  Min((1..(Len(log) + Cardinality(DOMAIN index) + 1)) \
      ({log[i].oid : i \in DOMAIN log} \cup {index[k] : k \in DOMAIN index}))

\* the outcome of an operation on the primary-key table
PkOutcome(exc, log, index, count) ==
  [raised |-> exc # "", exc |-> exc, log |-> log, index |-> index, count |-> count]

\* insert: coerce, refuse a key that the index holds, append, index
PkInsertRow(log, index, id, name) ==
  IF id.raised \/ name.raised THEN PkOutcome("TypeError", log, index, 0)
  ELSE IF id.val # Null /\ id.val \in DOMAIN index
    THEN PkOutcome("DuplicateKeyError", log, index, 0)
  ELSE PkOutcome("", Append(log, [oid |-> PkFresh(log, index), id |-> id.val, name |-> name.val]),
                 IF id.val # Null THEN PkMap(index, id.val, PkFresh(log, index)) ELSE index,
                 0)

\* the index after a row's key changed: the old mapping is removed if the old
\* value was indexed, and the new one is inserted; uniqueness is not checked
PkReindex(index, old, new, oid) ==
  IF new # Null
  THEN PkMap(IF old # Null /\ old \in DOMAIN index THEN PkUnmap(index, old) ELSE index,
             new, oid)
  ELSE IF old # Null /\ old \in DOMAIN index THEN PkUnmap(index, old) ELSE index

\* the scan of update: a matching row is changed in place and counted
RECURSIVE PkUpdateScan(_, _, _, _, _, _)
PkUpdateScan(rows, set, where, done, index, count) ==
  IF rows = <<>> THEN PkOutcome("", done, index, count)
  ELSE IF ~PkMatches(rows[1], where)
    THEN PkUpdateScan(Tail(rows), set, where, Append(done, rows[1]), index, count)
  ELSE IF set[1] = "id"
    THEN PkUpdateScan(Tail(rows), set, where,
                      Append(done, [rows[1] EXCEPT !.id = set[2]]),
                      PkReindex(index, rows[1].id, set[2], rows[1].oid), count + 1)
  ELSE PkUpdateScan(Tail(rows), set, where, Append(done, [rows[1] EXCEPT !.name = set[2]]),
                    index, count + 1)

\* update: the set value is coerced for a matching row, then the scan
PkUpdateRows(log, index, set, where) ==
  IF (\E i \in DOMAIN log : PkMatches(log[i], where)) /\ set[2].raised
  THEN PkOutcome("TypeError", log, index, 0)
  ELSE PkUpdateScan(log, <<set[1], set[2].val>>, where, <<>>, index, 0)

\* the scan of delete: a matching row is counted and left out, and its key,
\* if indexed, is removed from the index
RECURSIVE PkDeleteScan(_, _, _, _, _)
PkDeleteScan(rows, where, done, index, count) ==
  IF rows = <<>> THEN PkOutcome("", done, index, count)
  ELSE IF ~PkMatches(rows[1], where)
    THEN PkDeleteScan(Tail(rows), where, Append(done, rows[1]), index, count)
  ELSE PkDeleteScan(Tail(rows), where, done,
                    IF rows[1].id # Null /\ rows[1].id \in DOMAIN index
                    THEN PkUnmap(index, rows[1].id) ELSE index,
                    count + 1)

\* the record of a call on the primary-key table
PkCall(op, key, out) ==
  [op |-> op, key |-> key, raised |-> out.raised, exc |-> out.exc, count |-> out.count,
   found |-> <<>>, logBefore |-> pkLog, indexBefore |-> pkIndex]

\* no call is under way
PkReady ==
  [op |-> "ready", key |-> Null, raised |-> FALSE, exc |-> "", count |-> 0,
   found |-> <<>>, logBefore |-> <<>>, indexBefore |-> [k \in {} |-> 0]]

\* table.insert({id: id, name: name})
PkInsert ==
  /\ pkLast = PkReady
  /\ \E id \in {Null, IntV(1), IntV(2), StrV(<<"2">>), StrV(<<"x">>)},
          name \in {StrV(<<"a">>), IntV(7)} :
       \E out \in {PkInsertRow(pkLog, pkIndex, PkCoerce(id, "INTEGER"),
                               PkCoerce(name, "STRING"))} :
         /\ Len(out.log) <= MaxPkRows
         /\ pkLog' = out.log
         /\ pkIndex' = out.index
         /\ pkLast' = PkCall("insert", PkCoerce(id, "INTEGER").val, out)
  /\ UNCHANGED dbVars

\* table.update({column: value}, where)
PkUpdate ==
  /\ pkLast = PkReady
  /\ \E set \in PkSets, where \in PkWheres :
       \E out \in {PkUpdateRows(pkLog, pkIndex,
                                <<set[1], PkCoerce(set[2], IF set[1] = "id" THEN "INTEGER"
                                                           ELSE "STRING")>>,
                                where)} :
         /\ pkLog' = out.log
         /\ pkIndex' = out.index
         /\ pkLast' = PkCall("update", Null, out)
  /\ UNCHANGED dbVars

\* table.delete(where)
PkDelete ==
  /\ pkLast = PkReady
  /\ \E where \in PkWheres :
       \E out \in {PkDeleteScan(pkLog, where, <<>>, pkIndex, 0)} :
         /\ pkLog' = out.log
         /\ pkIndex' = out.index
         /\ pkLast' = PkCall("delete", Null, out)
  /\ UNCHANGED dbVars

\* table.select_by_key(key): the row object that the index refers to
PkSelectByKey ==
  /\ pkLast = PkReady
  /\ \E key \in {IntV(1), IntV(2)} :
       pkLast' = [PkCall("select_by_key", key, PkOutcome("", pkLog, pkIndex, 0)) EXCEPT
                    !.found = IF key \in DOMAIN pkIndex
                              THEN SelectSeq(pkLog, LAMBDA row : row.oid = pkIndex[key])
                              ELSE <<>>]
  /\ UNCHANGED <<pkLog, pkIndex, dbVars>>

\* the caller is ready for its next call on the table
PkNextCall ==
  /\ pkLast # PkReady
  /\ pkLast' = PkReady
  /\ UNCHANGED <<pkLog, pkIndex, dbVars>>


\* ------------------------------------------------------ the web front end

\* src/app/app.py keeps its users in the primary-key table (key id).  Of a
\* user the model keeps the id and the name; the email is one more string
\* column and is looked at by register only.

\* the most users the table holds in the model
MaxUsers == 3

\* POST /register: name and email are stripped and both required; the id is
\* the row count plus one; a DuplicateKeyError of the insert is reported and
\* nothing is inserted
Register ==
  /\ pkLast = PkReady
  /\ \E name \in {<<"a">>, <<" ","b">>, <<" ">>}, email \in {<<"e">>, <<>>} :
       IF Strip(name) = <<>> \/ Strip(email) = <<>>
       THEN /\ pkLast' = PkCall("register", Null, PkOutcome("", pkLog, pkIndex, 0))
            /\ UNCHANGED <<pkLog, pkIndex>>
       ELSE \E out \in {PkInsertRow(pkLog, pkIndex,
                                    PkCoerce(IntV(Len(pkLog) + 1), "INTEGER"),
                                    PkCoerce(StrV(Strip(name)), "STRING"))} :
              /\ Len(out.log) <= MaxUsers
              /\ pkLog' = out.log
              /\ pkIndex' = out.index
              /\ pkLast' = PkCall("register", IntV(Len(pkLog) + 1), out)
  /\ UNCHANGED dbVars

\* POST /query with a DELETE FROM users statement: db.execute(sql) deletes the
\* rows that the WHERE retains
Query ==
  /\ pkLast = PkReady
  /\ \E where \in PkWheres :
       \E out \in {PkDeleteScan(pkLog, where, <<>>, pkIndex, 0)} :
         /\ pkLog' = out.log
         /\ pkIndex' = out.index
         /\ pkLast' = PkCall("query", Null, out)
  /\ UNCHANGED dbVars
\* --------------------------------------------------------------- claims

\* two rows are equal as Python dicts: the same keys with the same values, in
\* any order
DictEq(d1, d2) ==
  /\ DictKeys(d1) = DictKeys(d2)
  /\ \A k \in DictKeys(d1) : DictGet(d1, k) = DictGet(d2, k)

\* the rows of the log of the last call's table, before the call and now
LogBefore == Rows(last.dataBefore[last.table])

LogNow == Rows(data[last.table])

\* where is absent, or the row satisfies it
Matches(row, where) == ~where.some \/ EvaluateWhere(row, where) = Return(BoolV(TRUE))

\* where can be evaluated on the row and the row does not satisfy it
Misses(row, where) == where.some /\ EvaluateWhere(row, where) = Return(BoolV(FALSE))

\* the positions of the rows of a log that satisfy where
Matching(log, where) == {i \in DOMAIN log : Matches(log[i], where)}

\* the last call is a call of Table.update or Table.delete that returned
Returns(op) == last.op = op /\ ~last.raised

\* C1: on the table with a primary key, after any sequence of insert, update
\* and delete no two rows of the row log carry the same non-null key.
PkKeysDistinct ==
  \A i, j \in DOMAIN pkLog :
    (i # j /\ pkLog[i].id # Null) => pkLog[i].id # pkLog[j].id

\* C2: an insert whose key equals the non-null key of a row already in the
\* table fails with DuplicateKeyError, and the row log and the index (and so
\* the row count) are what they were before it.
PkDuplicateInsertFails ==
  (/\ pkLast.op = "insert"
   /\ pkLast.key # Null
   /\ \E i \in DOMAIN pkLast.logBefore : pkLast.logBefore[i].id = pkLast.key)
  => /\ pkLast.exc = "DuplicateKeyError"
     /\ pkLog = pkLast.logBefore
     /\ pkIndex = pkLast.indexBefore

\* C3: after every completed insert, update or delete the index is exactly
\* the mapping from each non-null key of the row log to the row holding it,
\* and a lookup by key returns that row with its current values.
PkIndexMatchesLog ==
  /\ \A i \in DOMAIN pkLog :
       pkLog[i].id # Null =>
         pkLog[i].id \in DOMAIN pkIndex /\ pkIndex[pkLog[i].id] = pkLog[i].oid
  /\ \A k \in DOMAIN pkIndex :
       \E i \in DOMAIN pkLog : pkLog[i].id = k /\ pkLog[i].oid = pkIndex[k]
  /\ pkLast.op = "select_by_key" =>
       \A i \in DOMAIN pkLog : pkLog[i].id = pkLast.key => pkLast.found = <<pkLog[i]>>

\* C4: select with no WHERE and no column list returns the rows of the row
\* log, in their order, each with exactly the columns of the schema (None for
\* a column the stored row lacks); and right after insert returned row R,
\* selecting all rows returns a list whose last element equals R.
SelectAllReturnsLog ==
  /\ (Returns("select") /\ ~last.columns.some /\ ~last.where.some) =>
       /\ Len(last.out.rows) = Len(LogNow)
       /\ \A i \in DOMAIN LogNow :
            /\ [j \in DOMAIN last.out.rows[i] |-> last.out.rows[i][j][1]]
                 = [j \in DOMAIN last.schema |-> last.schema[j][1]]
            /\ \A j \in DOMAIN last.schema :
                 last.out.rows[i][j][2]
                   = IF DictHas(LogNow[i], last.schema[j][1])
                     THEN DictGet(LogNow[i], last.schema[j][1]) ELSE Null
  /\ Returns("insert") =>
       /\ ~Select(last.schema, data[last.table], NoColumns, NoWhere).raised
       /\ Select(last.schema, data[last.table], NoColumns, NoWhere).rows # <<>>
       /\ DictEq(Select(last.schema, data[last.table], NoColumns, NoWhere).rows[Len(LogNow)],
                 last.out.row)
       /\ Len(Select(last.schema, data[last.table], NoColumns, NoWhere).rows) = Len(LogNow)

\* a select of every row returned two rows
SelectAllReturnsLogWitness ==
  /\ Returns("select")
  /\ ~last.columns.some
  /\ ~last.where.some
  /\ Len(last.out.rows) = 2
  /\ last.out.rows[1] # last.out.rows[2]

\* the result of the last statement of the scenario is a success with one
\* row, id and name as given
OneUser(name) ==
  /\ last.result.success
  /\ "rows" \in last.result.keys
  /\ Len(last.result.rows) = 1
  /\ DictEq(last.result.rows[1], << <<<<"i","d">>, IntV(1)>>, <<<<"n","a","m","e">>, StrV(name)>> >>)

\* C5: the statements of the scenario, executed in order on a new database,
\* succeed one by one: table created, row stored, one row {id: 1, name:
\* Alice}, count 1, one row {id: 1, name: Bob}, count 1, no row.
ScenarioSucceeds ==
  last.op = "execute" =>
    /\ scen = 1 => last.result.success /\ last.result.table = <<"u","s","e","r","s">>
    /\ scen = 2 =>
         /\ last.result.success
         /\ DictEq(last.result.row, << <<<<"i","d">>, IntV(1)>>, <<<<"n","a","m","e">>, StrV(<<"A","l","i","c","e">>)>> >>)
    /\ scen = 3 => OneUser(<<"A","l","i","c","e">>)
    /\ scen = 4 => last.result.success /\ last.result.count = 1
    /\ scen = 5 => OneUser(<<"B","o","b">>)
    /\ scen = 6 => last.result.success /\ last.result.count = 1
    /\ scen = 7 => last.result.success /\ last.result.rows = <<>> /\ last.result.count = 0

\* C6: execute never raises: whatever goes wrong comes back as a failure
\* result that carries an error message and nothing else, no rows and no
\* count.
ExecuteNeverRaises ==
  last.op = "execute" =>
    /\ ~last.raised
    /\ "success" \in last.result.keys
    /\ ~last.result.success =>
         /\ last.result.keys = {"success", "error"}
         /\ last.result.error # ""

\* a comparison of a string with a number failed while a statement was
\* executed
ExecuteNeverRaisesWitness ==
  /\ last.op = "execute"
  /\ ~last.result.success
  /\ last.result.error = "TypeError"

\* C7: an insert that raises, for a wrong number of values or for a value
\* that cannot be converted to the type of its column, has written nothing:
\* the data file is what it was before the call.
FailedInsertWritesNothing ==
  /\ (last.op = "insert" /\ last.raised) => data = last.dataBefore
  /\ (last.op = "execute" /\ ~last.result.success) => data = last.dataBefore

\* an insert with the right number of values raised on a table with a row
FailedInsertWritesNothingWitness ==
  /\ last.op = "insert"
  /\ last.raised
  /\ Len(last.values) = Len(last.schema)
  /\ Len(LogBefore) >= 1

UpdateCountsAndSets ==
  Returns("update") =>
    /\ last.out.count = Cardinality(Matching(LogBefore, last.where))
    /\ Len(LogNow) = Len(LogBefore)
    /\ \A i \in DOMAIN LogBefore :
         IF Matches(LogBefore[i], last.where)
         THEN /\ DictKeys(LogNow[i]) = DictKeys(LogBefore[i]) \cup DictKeys(last.updates)
              /\ \A c \in DictKeys(LogNow[i]) :
                   DictGet(LogNow[i], c)
                     = IF DictHas(last.updates, c)
                       THEN ValidateType(DictGet(last.updates, c), DictGet(last.schema, c)).val
                       ELSE DictGet(LogBefore[i], c)
         ELSE LogNow[i] = LogBefore[i]

\* an update changed one of two rows
UpdateCountsAndSetsWitness ==
  /\ Returns("update")
  /\ Len(LogBefore) = 2
  /\ last.out.count = 1
  /\ LogNow # LogBefore

\* the position in the log before a delete of the k-th row that survives it
Survivor(k) ==
  CHOOSE i \in DOMAIN LogBefore \ Matching(LogBefore, last.where) :
    Cardinality({j \in DOMAIN LogBefore \ Matching(LogBefore, last.where) : j <= i}) = k

\* C10: delete returns the number of rows that satisfy where (all rows
\* without where), and the log afterwards is the log before without those
\* rows: the other rows as they were, in their order.
DeleteCountsAndRemoves ==
  Returns("delete") =>
    /\ last.out.count = Cardinality(Matching(LogBefore, last.where))
    /\ Len(LogNow) = Len(LogBefore) - last.out.count
    /\ \A k \in DOMAIN LogNow : LogNow[k] = LogBefore[Survivor(k)]

\* a delete removed the first of two rows
DeleteCountsAndRemovesWitness ==
  /\ Returns("delete")
  /\ Len(LogBefore) = 2
  /\ last.out.count = 1
  /\ LogNow = <<LogBefore[2]>>

\* the result of SELECT * FROM users on the files before the last call
UnlimitedBefore ==
  Execute(<<"S","E","L","E","C","T"," ","*"," ","F","R","O","M"," ","u","s","e","r","s">>, last.metadataBefore, last.dataBefore).result

\* C11: a SELECT with LIMIT 1 succeeds whenever the same SELECT without the
\* LIMIT does, and returns at most one row: the first row of what the SELECT
\* without the LIMIT returns.
LimitTruncates ==
  (/\ last.op = "execute"
   /\ last.sql = <<"S","E","L","E","C","T"," ","*"," ","F","R","O","M"," ","u","s","e","r","s"," ","L","I","M","I","T"," ","1">>
   /\ UnlimitedBefore.success)
  => /\ last.result.success
     /\ Len(last.result.rows) <= 1
     /\ last.result.rows = SubSeq(UnlimitedBefore.rows, 1, Len(last.result.rows))
     /\ UnlimitedBefore.rows # <<>> => last.result.rows # <<>>

\* the rows of the users table before the last call that have id 1 and name
\* Alice
BothHold ==
  {i \in DOMAIN Rows(last.dataBefore[<<"u","s","e","r","s">>]) :
     /\ Matches(Rows(last.dataBefore[<<"u","s","e","r","s">>])[i], Where(<<"i","d">>, <<"=">>, IntV(1)))
     /\ Matches(Rows(last.dataBefore[<<"u","s","e","r","s">>])[i],
                Where(<<"n","a","m","e">>, <<"=">>, StrV(<<"A","l","i","c","e">>)))}

\* C12: a SELECT whose WHERE is id=1 AND name='Alice' returns exactly the rows
\* that satisfy both conditions.
ConjunctionSelects ==
  (/\ last.op = "execute"
   /\ last.sql = <<"S","E","L","E","C","T"," ","*"," ","F","R","O","M"," ","u","s","e","r","s"," ","W","H","E","R","E"," ","i","d","=","1"," ","A","N","D"," ","n","a","m","e","=","'","A","l","i","c","e","'">>
   /\ TableExists(last.metadataBefore, <<"u","s","e","r","s">>))
  => /\ last.result.success
     /\ last.result.count = Cardinality(BothHold)
     /\ \A i \in DOMAIN last.result.rows :
          /\ Matches(last.result.rows[i], Where(<<"i","d">>, <<"=">>, IntV(1)))
          /\ Matches(last.result.rows[i], Where(<<"n","a","m","e">>, <<"=">>, StrV(<<"A","l","i","c","e">>)))

\* the last call is an execute of a statement that parses to a command of
\* this type
Executes(type) ==
  /\ last.op = "execute"
  /\ ~ParseTable[last.sql].raised
  /\ ParseTable[last.sql].cmd.type = type

\* the table the executed statement names
Named == ParseTable[last.sql].cmd.table

\* the columns and types that the text of a CREATE TABLE statement supplies
Supplied(sql) ==
  CASE sql = <<"C","R","E","A","T","E"," ","T","A","B","L","E"," ","u","s","e","r","s"," ","(","i","d"," ","I","N","T","E","G","E","R",","," ","n","a","m","e"," ","T","E","X","T",")">> ->
         << <<<<"i","d">>, <<"I","N","T","E","G","E","R">>>>, <<<<"n","a","m","e">>, <<"T","E","X","T">>>> >>
    [] sql = <<"C","R","E","A","T","E"," ","T","A","B","L","E"," ","u","s","e","r","s"," ","(","n","a","m","e"," ","T","E","X","T",","," ","i","d"," ","I","N","T","E","G","E","R",")">> ->
         << <<<<"n","a","m","e">>, <<"T","E","X","T">>>>, <<<<"i","d">>, <<"I","N","T","E","G","E","R">>>> >>
    [] sql = <<"c","r","e","a","t","e"," ","t","a","b","l","e"," ","i","t","e","m","s"," ","(","o","k"," ","b","o","o","l","e","a","n",","," ","p","r","i","c","e"," ","f","l","o","a","t",")",";">> ->
         << <<<<"o","k">>, <<"B","O","O","L","E","A","N">>>>, <<<<"p","r","i","c","e">>, <<"F","L","O","A","T">>>> >>

\* C13: right after a CREATE TABLE succeeded, describing the table returns
\* the columns and types supplied, in their order; no later step changes what
\* describing a table returns while the table exists; and a call of
\* get_table_schema returns just that.
DescribeReturnsSupplied ==
  /\ [](/\ (Executes("CREATE") /\ last.result.success) =>
             GetTableSchema(metadata, Named) = Return(Supplied(last.sql))
        /\ (last.op = "get_table_schema" /\ ~last.raised) =>
             Return(last.schema) = GetTableSchema(metadata, last.table))
  /\ [][\A n \in TableNames :
          (TableExists(metadata, n) /\ TableExists(metadata', n)) =>
            GetTableSchema(metadata', n) = GetTableSchema(metadata, n)]_vars

\* the schema of users, created with name before id, was returned when the
\* table had a row
DescribeReturnsSuppliedWitness ==
  /\ last.op = "get_table_schema"
  /\ ~last.raised
  /\ last.schema = << <<<<"n","a","m","e">>, <<"T","E","X","T">>>>, <<<<"i","d">>, <<"I","N","T","E","G","E","R">>>> >>
  /\ Len(data[last.table].content) >= 1

\* C14: a CREATE TABLE under a name that has a schema fails with the
\* already-exists error, and the schema and the rows of the existing table
\* (and every other file) are what they were.
CreateExistingFails ==
  (Executes("CREATE") /\ TableExists(last.metadataBefore, Named))
  => /\ ~last.result.success
     /\ last.result.error = "already exists"
     /\ metadata = last.metadataBefore
     /\ data = last.dataBefore

\* a CREATE TABLE with other columns was refused on a table with a row
CreateExistingFailsWitness ==
  /\ Executes("CREATE")
  /\ TableExists(last.metadataBefore, Named)
  /\ ParseTable[last.sql].cmd.columns # LoadSchema(metadata, Named)
  /\ Len(data[Named].content) >= 1
  /\ ~last.result.success

\* the last call is a call of a Table method on a table loaded by name
OnTable == last.op \in {"insert", "select", "update", "delete"}

\* C15: when DROP TABLE has succeeded the table is not listed and its rows
\* are gone; as long as a table has no schema it has no data file, and every
\* insert, select, update and delete that names it fails; and a table that has
\* just been created has no row.
DroppedRowsAreGone ==
  /\ (Executes("DROP") /\ last.result.success) =>
       /\ \A i \in DOMAIN ListTables(metadata) : ListTables(metadata)[i] # Named
       /\ ~TableExists(metadata, Named)
  /\ \A n \in TableNames : ~TableExists(metadata, n) => data[n] = NoFile
  /\ (OnTable /\ ~TableExists(last.metadataBefore, last.table)) => last.raised
  /\ (/\ Executes("INSERT") \/ Executes("SELECT") \/ Executes("UPDATE") \/ Executes("DELETE")
      /\ ~TableExists(last.metadataBefore, Named)) => ~last.result.success
  /\ (Executes("CREATE") /\ last.result.success) =>
       /\ Rows(data[Named]) = <<>>
       /\ Select(LoadSchema(metadata, Named), data[Named], NoColumns, NoWhere).rows = <<>>

\* a table that held a row was dropped
DroppedRowsAreGoneWitness ==
  /\ Executes("DROP")
  /\ last.result.success
  /\ Len(last.dataBefore[Named].content) >= 1

\* C16: list_tables returns, each once and in ascending order, the names of
\* the tables that exist; a new database has none, and a name enters the list
\* only by a successful CREATE TABLE and leaves it only by a successful DROP
\* TABLE.
ListTablesIsCreatedNotDropped ==
  /\ ListTables(metadata) = <<>>
  /\ [](/\ last.op = "list_tables" => last.out.rows = ListTables(metadata)
        /\ \A i, j \in DOMAIN ListTables(metadata) :
             i < j => StrLess(ListTables(metadata)[i], ListTables(metadata)[j])
        /\ \A n \in TableNames :
             TableExists(metadata, n) <=> \E i \in DOMAIN ListTables(metadata) :
                                            ListTables(metadata)[i] = n)
  /\ [][\A n \in TableNames :
          (\E i \in DOMAIN ListTables(metadata') : ListTables(metadata')[i] = n) <=>
            IF last'.op = "execute" /\ last'.result.success /\ ~ParseTable[last'.sql].raised
               /\ ParseTable[last'.sql].cmd.table = n
               /\ ParseTable[last'.sql].cmd.type \in {"CREATE", "DROP"}
            THEN ParseTable[last'.sql].cmd.type = "CREATE"
            ELSE \E i \in DOMAIN ListTables(metadata) : ListTables(metadata)[i] = n]_vars

\* list_tables returned two names
ListTablesIsCreatedNotDroppedWitness ==
  /\ last.op = "list_tables"
  /\ Len(last.out.rows) = 2

\* no file of either directory has changed in the last call
NothingChanged == metadata = last.metadataBefore /\ data = last.dataBefore

\* C17: an insert, select, update, delete or describe that names a table
\* without schema fails with the not-found error, and no file of either
\* directory is created or changed by it (so list_tables is as before).
MissingTableFails ==
  /\ ((OnTable \/ last.op = "get_table_schema")
      /\ ~TableExists(last.metadataBefore, last.table)) =>
       /\ last.raised
       /\ last.out.exc = "FileNotFoundError"
       /\ NothingChanged
  /\ (/\ Executes("INSERT") \/ Executes("SELECT") \/ Executes("UPDATE") \/ Executes("DELETE")
      /\ ~TableExists(last.metadataBefore, Named)) =>
       /\ ~last.result.success
       /\ last.result.error = "does not exist"
       /\ NothingChanged
       /\ ListTables(metadata) = ListTables(last.metadataBefore)
       /\ data[Named] = NoFile

\* an INSERT statement named a table without schema while another table had
\* one
MissingTableFailsWitness ==
  /\ Executes("INSERT")
  /\ ~TableExists(last.metadataBefore, Named)
  /\ ListTables(metadata) # <<>>

\* C18: an insert, update, delete or drop on one table (and any other call
\* that names one table) leaves the schema file and the data file of every
\* other table as they were.
OtherTablesUntouched ==
  /\ (OnTable \/ last.op = "get_table_schema") =>
       \A n \in TableNames \ {last.table} :
         metadata[n] = last.metadataBefore[n] /\ data[n] = last.dataBefore[n]
  /\ (last.op = "execute" /\ ~ParseTable[last.sql].raised) =>
       \A n \in TableNames \ {Named} :
         metadata[n] = last.metadataBefore[n] /\ data[n] = last.dataBefore[n]

\* a table was dropped while another table held a row
OtherTablesUntouchedWitness ==
  /\ Executes("DROP")
  /\ last.result.success
  /\ \E n \in TableNames \ {Named} : Len(data[n].content) >= 1

\* C19: an instance opened on the directories of another one finds what that
\* one left: the same list of tables, the same schema for each table, and
\* the same rows in the same order.
ReopenedSeesSame ==
  last.op = "open" =>
    /\ ListTables(metadata) = ListTables(last.metadataBefore)
    /\ \A n \in TableNames :
         /\ GetTableSchema(metadata, n) = GetTableSchema(last.metadataBefore, n)
         /\ TableExists(metadata, n) =>
              Select(LoadSchema(metadata, n), data[n], NoColumns, NoWhere).rows
                = Select(LoadSchema(last.metadataBefore, n), last.dataBefore[n],
                         NoColumns, NoWhere).rows

\* an instance was opened on directories with two tables and a row
ReopenedSeesSameWitness ==
  /\ last.op = "open"
  /\ Len(ListTables(metadata)) = 2
  /\ \E n \in TableNames : Len(data[n].content) >= 1

\* the Python type of the values of a column type
TypeTag(type) ==
  CASE type = <<"T","E","X","T">> -> "str"
    [] type = <<"I","N","T","E","G","E","R">> -> "int"
    [] type = <<"F","L","O","A","T">> -> "float"
    [] type = <<"B","O","O","L","E","A","N">> -> "bool"

\* the row has the columns of the schema, each null or of the column's type
Fits(row, schema) ==
  /\ DictKeys(row) = DictKeys(schema)
  /\ \A c \in DictKeys(schema) :
       DictGet(row, c).t \in {"null", TypeTag(DictGet(schema, c))}

\* C20: every row of the data file of a table, every row that insert returns
\* and every row that a select of all columns returns has the columns of the
\* schema, each value null or of the type the schema declares.
RowsFitSchema ==
  /\ \A n \in TableNames :
       TableExists(metadata, n) =>
         \A i \in DOMAIN data[n].content :
           Fits(LoadsRow(data[n].content[i]), LoadSchema(metadata, n))
  /\ Returns("insert") => Fits(last.out.row, last.schema)
  /\ (Returns("select") /\ ~last.columns.some) =>
       \A i \in DOMAIN last.out.rows : Fits(last.out.rows[i], last.schema)
  /\ (Executes("INSERT") /\ last.result.success) =>
       Fits(last.result.row, LoadSchema(metadata, Named))

\* an update wrote a converted value into a table with two rows
RowsFitSchemaWitness ==
  /\ Returns("update")
  /\ last.out.count >= 1
  /\ Len(LogNow) = 2
  /\ \E i \in DOMAIN last.updates :
       last.updates[i][2].t \notin {"null", TypeTag(DictGet(last.schema, last.updates[i][1]))}


\* the where of the last call holds on the row
Holds(row) == last.where.some /\ EvaluateWhere(row, last.where) = Return(BoolV(TRUE))

\* the where of the last call cannot be evaluated on the row: the comparison
\* of the row's value with the literal raises
Incomparable(row) == last.where.some /\ EvaluateWhere(row, last.where).raised

\* C21: a select on an existing table with existing columns, whose WHERE
\* cannot be compared with the value of some row, does not fail: it returns
\* the rows on which the WHERE holds, the incomparable rows left out.
IncomparableRowExcluded ==
  (/\ last.op = "select"
   /\ TableExists(last.metadataBefore, last.table)
   /\ ~Select(last.schema, last.dataBefore[last.table], last.columns, NoWhere).raised
   /\ \E i \in DOMAIN LogBefore : Incomparable(LogBefore[i]))
  => /\ ~last.raised
     /\ Len(last.out.rows) = Cardinality({i \in DOMAIN LogBefore : Holds(LogBefore[i])})

\* the row has no value for the column: the column is absent or holds null
NullOrAbsent(row, column) == ~DictHas(row, column) \/ DictGet(row, column) = Null

\* C22: the predicate col = NULL retains exactly the rows in which col is
\* null or absent, col != NULL exactly the rows in which col is present and
\* not null, and another operator retains no row in which col is absent or
\* null, and no row at all when the literal is null.  A delete removes the
\* rows that its predicate retains, a select returns them.
NullPredicates ==
  /\ (Returns("delete") /\ last.where.some /\ last.where.value = Null) =>
       /\ last.where.operator = <<"=">> =>
            LogNow = SelectSeq(LogBefore, LAMBDA r : ~NullOrAbsent(r, last.where.column))
       /\ last.where.operator = <<"!","=">> =>
            LogNow = SelectSeq(LogBefore, LAMBDA r : NullOrAbsent(r, last.where.column))
       /\ last.where.operator \notin {<<"=">>, <<"!","=">>} => LogNow = LogBefore
  /\ (Returns("delete") /\ last.where.some /\ last.where.value # Null) =>
       \A i \in DOMAIN LogBefore :
         NullOrAbsent(LogBefore[i], last.where.column) =>
           \E j \in DOMAIN LogNow : LogNow[j] = LogBefore[i]
  /\ (/\ Executes("SELECT")
      /\ last.result.success
      /\ ParseTable[last.sql].cmd.where.some
      /\ ParseTable[last.sql].cmd.where.value = Null) =>
       Len(last.result.rows) =
         Cardinality({i \in DOMAIN Rows(data[Named]) :
                        \/ /\ ParseTable[last.sql].cmd.where.operator = <<"=">>
                           /\ NullOrAbsent(Rows(data[Named])[i],
                                           ParseTable[last.sql].cmd.where.column)
                        \/ /\ ParseTable[last.sql].cmd.where.operator = <<"!","=">>
                           /\ ~NullOrAbsent(Rows(data[Named])[i],
                                            ParseTable[last.sql].cmd.where.column)})

\* the command that the text of a statement writes down
Written(sql) ==
  CASE sql = <<"U","P","D","A","T","E"," ","u","s","e","r","s"," ","S","E","T"," ","n","a","m","e","=","'","B","o","b","'"," ","W","H","E","R","E"," ","i","d","=","1">> ->
         [Command("UPDATE", <<"u","s","e","r","s">>) EXCEPT
            !.updates = << <<<<"n","a","m","e">>, StrV(<<"B","o","b">>)>> >>,
            !.where = Where(<<"i","d">>, <<"=">>, IntV(1))]
    [] sql = <<"U","P","D","A","T","E"," ","u","s","e","r","s"," ","S","E","T"," ","n","a","m","e","=","'","B","o","b","'">> ->
         [Command("UPDATE", <<"u","s","e","r","s">>) EXCEPT
            !.updates = << <<<<"n","a","m","e">>, StrV(<<"B","o","b">>)>> >>]
    [] sql = <<"U","P","D","A","T","E"," ","u","s","e","r","s"," ","S","E","T"," ","i","d","=","2",","," ","n","a","m","e","=","'","B","o","b","'"," ","W","H","E","R","E"," ","i","d","=","1">> ->
         [Command("UPDATE", <<"u","s","e","r","s">>) EXCEPT
            !.updates = << <<<<"i","d">>, IntV(2)>>, <<<<"n","a","m","e">>, StrV(<<"B","o","b">>)>> >>,
            !.where = Where(<<"i","d">>, <<"=">>, IntV(1))]
    [] sql = <<"I","N","S","E","R","T"," ","I","N","T","O"," ","u","s","e","r","s"," ","V","A","L","U","E","S"," ","(","1",","," ","'","a",",","b","'",")">> ->
         [Command("INSERT", <<"u","s","e","r","s">>) EXCEPT !.values = <<IntV(1), StrV(<<"a",",","b">>)>>]
    [] sql = <<"S","E","L","E","C","T"," ","*"," ","F","R","O","M"," ","u","s","e","r","s"," ","W","H","E","R","E"," ","n","a","m","e","=","'","a","!","=","b","'">> ->
         [Command("SELECT", <<"u","s","e","r","s">>) EXCEPT
            !.columns = << <<"*">> >>,
            !.where = Where(<<"n","a","m","e">>, <<"=">>, StrV(<<"a","!","=","b">>))]
    [] sql = <<"S","E","L","E","C","T"," ","*"," ","F","R","O","M"," ","u","s","e","r","s"," ","W","H","E","R","E"," ","n","a","m","e"," ","="," ","'","x"," ","A","N","D"," ","y","'">> ->
         [Command("SELECT", <<"u","s","e","r","s">>) EXCEPT
            !.columns = << <<"*">> >>,
            !.where = Where(<<"n","a","m","e">>, <<"=">>, StrV(<<"x"," ","A","N","D"," ","y">>))]

\* C23: parsing UPDATE t SET c1=v1, ..., ck=vk [WHERE cond] succeeds and
\* yields the update command on t whose set mapping is c1: v1, ..., ck: vk and
\* whose where is the condition, or none when the statement has no WHERE.
UpdateParses ==
  (/\ last.op = "execute"
   /\ last.sql \in {<<"U","P","D","A","T","E"," ","u","s","e","r","s"," ","S","E","T"," ","n","a","m","e","=","'","B","o","b","'"," ","W","H","E","R","E"," ","i","d","=","1">>,
                    <<"U","P","D","A","T","E"," ","u","s","e","r","s"," ","S","E","T"," ","n","a","m","e","=","'","B","o","b","'">>,
                    <<"U","P","D","A","T","E"," ","u","s","e","r","s"," ","S","E","T"," ","i","d","=","2",","," ","n","a","m","e","=","'","B","o","b","'"," ","W","H","E","R","E"," ","i","d","=","1">>})
  => ParseTable[last.sql] = Parsed(Written(last.sql))

\* C24: a statement that parses yields the same command when one ; follows it.
TerminatorIgnored ==
  (/\ last.op = "execute"
   /\ ~ParseTable[last.sql].raised
   /\ Append(last.sql, ";") \in DOMAIN ParseTable)
  => ParseTable[Append(last.sql, ";")] = ParseTable[last.sql]

\* C25: a comma, an operator or the text AND inside a quoted value does not
\* split a value list or a WHERE clause: the statement parses to the command
\* it writes down, the quoted value whole.
QuotedStaysWhole ==
  (/\ last.op = "execute"
   /\ last.sql \in {<<"I","N","S","E","R","T"," ","I","N","T","O"," ","u","s","e","r","s"," ","V","A","L","U","E","S"," ","(","1",","," ","'","a",",","b","'",")">>,
                    <<"S","E","L","E","C","T"," ","*"," ","F","R","O","M"," ","u","s","e","r","s"," ","W","H","E","R","E"," ","n","a","m","e","=","'","a","!","=","b","'">>,
                    <<"S","E","L","E","C","T"," ","*"," ","F","R","O","M"," ","u","s","e","r","s"," ","W","H","E","R","E"," ","n","a","m","e"," ","="," ","'","x"," ","A","N","D"," ","y","'">>})
  => ParseTable[last.sql] = Parsed(Written(last.sql))

\* the texts that are not a complete statement of a recognised kind: empty, a
\* bare keyword, no keyword, a statement followed by more text
Malformed ==
  {<<>>, <<"S","E","L","E","C","T">>, <<"H","E","L","L","O"," ","w","o","r","l","d">>, <<"D","R","O","P"," ","T","A","B","L","E"," ","u","s","e","r","s"," ","n","o","w">>}

\* C26: parse raises for every text that is not a complete well-formed
\* statement, and executing it fails and changes nothing.
MalformedFails ==
  (last.op = "execute" /\ last.sql \in Malformed)
  => /\ ParseTable[last.sql].raised
     /\ ~last.result.success
     /\ NothingChanged

\* C27: DELETE FROM t with nothing after the table name removes every row;
\* with text after the table name that is not a well-formed WHERE clause,
\* execute returns a failure and the rows stay.
MalformedDeleteFails ==
  /\ (/\ last.op = "execute"
      /\ last.sql = <<"D","E","L","E","T","E"," ","F","R","O","M"," ","u","s","e","r","s">>
      /\ TableExists(last.metadataBefore, <<"u","s","e","r","s">>))
     => last.result.success /\ Rows(data[<<"u","s","e","r","s">>]) = <<>>
  /\ (/\ last.op = "execute"
      /\ last.sql \in {<<"D","E","L","E","T","E"," ","F","R","O","M"," ","u","s","e","r","s"," ","W","H","E","R","E">>, <<"D","E","L","E","T","E"," ","F","R","O","M"," ","u","s","e","r","s"," ","i","d","=","1">>,
                       <<"D","E","L","E","T","E"," ","F","R","O","M"," ","u","s","e","r","s"," ","W","H","E","R","E"," ","i","d">>})
     => ~last.result.success /\ data = last.dataBefore

\* C28: an update or a delete that raises (a column that the schema lacks, a
\* value that cannot be converted, a WHERE that cannot be compared with the
\* value of a row) leaves every file as it was before the call: no row of the
\* log has been changed or removed.
FailedRewriteKeepsLog ==
  (last.op \in {"update", "delete"} /\ last.raised)
  => /\ data = last.dataBefore
     /\ metadata = last.metadataBefore
     /\ LogNow = LogBefore

\* an update raised on a WHERE that cannot be compared with the value of a row,
\* on a table with two rows
FailedRewriteKeepsLogWitness ==
  /\ last.op = "update"
  /\ last.raised
  /\ last.out.exc = "TypeError"
  /\ Len(LogBefore) = 2
  /\ \E i \in DOMAIN LogBefore : Incomparable(LogBefore[i])

\* C29: when an insert on a table completes between a second caller's update
\* or delete reading the log and writing it back, the log written back holds
\* the rows that were read only, updated or not deleted: the row that the
\* insert appended, and returned, is not in the log any more.
InsertLostOnRewrite ==
  [][(/\ pending # NoRewrite
      /\ pending' = NoRewrite
      /\ Len(data[pending.table].content) > Len(pending.read.content))
     => /\ data'[pending.table] = pending.out.file
        /\ Len(data'[pending.table].content) <= Len(pending.read.content)
        /\ Len(data'[pending.table].content) < Len(data[pending.table].content)]_vars

\* a log has been written back with more rows gone than the call deleted: a
\* row appended after the scan
InsertLostOnRewriteWitness ==
  /\ last.op = "rewrite"
  /\ Len(LogBefore) - Len(LogNow) > last.out.count

\* C30: the id that register gives a new user, the row count plus one, is the
\* id of no row of the table, and the registration, made with a name and an
\* email, inserts the user: the table has one row more.
RegisterInsertsNewUser ==
  (pkLast.op = "register" /\ pkLast.key # Null)
  => /\ \A i \in DOMAIN pkLast.logBefore : pkLast.logBefore[i].id # pkLast.key
     /\ ~pkLast.raised
     /\ Len(pkLog) = Len(pkLast.logBefore) + 1
Next ==
  \/ ExecuteStatement
  \/ ScenarioStep
  \/ TableInsert
  \/ TableSelect
  \/ TableUpdate
  \/ TableDelete
  \/ ListTablesCall
  \/ GetTableSchemaCall
  \/ Reopen
  \/ NextCall

\* the database and the tables of src/src
Spec == Init /\ [][Next]_vars

NextSQL ==
  \/ ExecuteStatement
  \/ ExecuteDialect
  \/ TableInsert
  \/ TableSelect
  \/ TableUpdate
  \/ TableDelete
  \/ NextCall

\* the database and the tables of src/src, the statements of the documented
\* dialect included
SpecSQL == Init /\ [][NextSQL]_vars

NextRW ==
  \/ (pending = NoRewrite /\ ExecuteStatement)
  \/ TableInsert
  \/ ReadLog
  \/ WriteBack
  \/ NextCall

\* one caller executing statements and inserting, a second one updating and
\* deleting
SpecRW == Init /\ [][NextRW]_vars

NextPK ==
  \/ PkInsert
  \/ PkUpdate
  \/ PkDelete
  \/ PkSelectByKey
  \/ PkNextCall

\* the table with a primary key
SpecPK == Init /\ [][NextPK]_vars

NextWeb ==
  \/ Register
  \/ Query
  \/ PkNextCall

\* the users of the web front end: registrations and deletes
SpecWeb == Init /\ [][NextWeb]_vars

====
